---- MODULE Spec2Model ----
(***************************************************************************)
(* The background coordinator of the URL-change counter add-on             *)
(* (src/src/background.js, the permission-backed variant that starts at    *)
(* line 430) together with the in-page extractor ids.js                    *)
(* (src/unnamed/part_002) and the platform it runs on (tabs, permissions,  *)
(* timers, message delivery).                                              *)
(*                                                                         *)
(* Every async handler is a task that runs from one await to the next in   *)
(* one atomic step; tasks of different events interleave at their awaits.  *)
(***************************************************************************)
EXTENDS Integers, Sequences, FiniteSets, TLC

\* ------------------------------------------------------------------ bounds

\* Environment inputs (navigations, focus, close, UI messages, permission
\* changes, forged page-ids) of one behaviour.
MaxInputs == 3
\* Async handlers in flight at once.
MaxTasks == 1
\* page-ids messages of the extractor in flight at once.
MaxInbox == 2
\* Inputs that arrive while the add-on is busy: a handler is suspended, or an
\* event, a timer or a message is pending.
MaxRaces == 1
\* URL handlers in flight at once where the handlers of one navigation's events
\* overlap at their permission query.
MaxOverlap == 2

\* ------------------------------------------------------------------ values

Tabs == {1}
\* The tab ids of the specification that watches two tabs.
TwoTabs == {1, 2}

NoUrl == <<>>
NoOrigin == <<>>
NoTab == 0
NoObj == 0
NoNonce == 0
NoTimer == 0
\* A nonce the background never issued.
WrongNonce == -1

\* A URL string, kept as its five raw pieces: scheme (with the colon), host,
\* path, "?query" and "#fragment" as they are written in the string.
UrlA     == <<"https:", "a", "/p", "", "">>
UrlAq    == <<"https:", "a", "/q", "", "">>
UrlAqx   == <<"https:", "a", "/q", "?x", "">>
UrlAqxf  == <<"https:", "a", "/q", "?x", "#f">>
UrlAqxh  == <<"https:", "a", "/q", "?x", "#">>
UrlB     == <<"https:", "b", "/p", "", "">>
UrlAbout == <<"about:", "", "blank", "", "">>
UrlExt   == <<"moz-extension:", "uuid", "/sidebar.html", "", "">>

Urls == {UrlA, UrlAq, UrlAqx, UrlAqxf, UrlAqxh, UrlB, UrlAbout, UrlExt}

OriginA  == <<"https:", "a">>
OriginB  == <<"https:", "b">>
HttpOrigins == {OriginA, OriginB}

\* Sender URLs of a UI message: the extension's own page, or a web page.
SenderUrls == {UrlExt, UrlA}

\* What the extractor reads from a page: <<canonical, ogUrl, jsonLdId>>.
Payloads == { <<"", "", "">>, <<"c1", "o1", "j1">>, <<"c2", "o1", "">> }

\* The identifiers each page carries in its head.
PageIds(url) ==
  IF url = UrlA THEN <<"c1", "o1", "j1">>
  ELSE IF url \in {UrlAq, UrlAqx, UrlAqxf, UrlAqxh} THEN <<"c2", "o1", "">>
  ELSE <<"", "", "">>

\* ------------------------------------------------------------ pure helpers

CORE_PROTOCOLS == {"http:", "https:", "file:"}

NullURL == [valid |-> FALSE, protocol |-> "", host |-> "",
            pathname |-> "", search |-> "", hash |-> ""]

\* new URL(u): a lone "?" or "#" parses to an empty search / hash.
toURL(u) ==
  IF u = NoUrl THEN NullURL
  ELSE [valid |-> TRUE, protocol |-> u[1], host |-> u[2], pathname |-> u[3],
        search |-> IF u[4] = "?" THEN "" ELSE u[4],
        hash |-> IF u[5] = "#" THEN "" ELSE u[5]]

\* Faulty variant: every URL that parses passes.
isCoreProtocolAnyScheme(url) == toURL(url).valid

isCoreProtocol(url) ==
  LET u == toURL(url) IN u.valid /\ u.protocol \in CORE_PROTOCOLS

originOf(u) == <<u.protocol, u.host>>

\* Faulty variant: the query is compared against the path.
diffComponentsQueryVsPath(prev, next) ==
  IF ~prev.valid
  THEN [origin |-> FALSE, path |-> FALSE, query |-> FALSE, fragment |-> FALSE]
  ELSE [origin |-> prev.protocol # next.protocol \/ prev.host # next.host,
        path |-> prev.pathname # next.pathname,
        query |-> prev.pathname # next.search,
        fragment |-> prev.hash # next.hash]

diffComponents(prev, next) ==
  IF ~prev.valid
  THEN [origin |-> FALSE, path |-> FALSE, query |-> FALSE, fragment |-> FALSE]
  ELSE [origin |-> prev.protocol # next.protocol \/ prev.host # next.host,
        path |-> prev.pathname # next.pathname,
        query |-> prev.search # next.search,
        fragment |-> prev.hash # next.hash]

\* `${u.protocol}//${u.host}/*`, or none for an absent origin.
patternForOrigin(origin) ==
  IF origin = NoOrigin THEN <<>> ELSE <<origin[1], origin[2], "/*">>

\* permissions.contains on the granted set p; no pattern, no permission.
hasHostPerm(p, origin) ==
  LET pattern == patternForOrigin(origin) IN
  IF pattern = <<>> THEN FALSE ELSE pattern \in p

\* Faulty variant: a query that fails counts as permission.
hasHostPermFailOpen(p, origin) == patternForOrigin(origin) # <<>>

\* hasHostPerm when permissions.contains rejects: the catch block answers false.
hasHostPermThrows(p, origin) == FALSE

newCounts ==
  [totals |-> [all |-> 0, full |-> 0, spa |-> 0],
   dims |-> [path |-> 0, query |-> 0, fragment |-> 0],
   ids |-> [canonical |-> 0, ogUrl |-> 0, jsonLdId |-> 0]]

newIds == [canonical |-> "", ogUrl |-> "", jsonLdId |-> ""]

newState ==
  [lastUrl |-> NoUrl, origin |-> NoOrigin, hasBaseline |-> FALSE,
   suppressNextIdIncrements |-> FALSE, counts |-> newCounts, ids |-> newIds]

\* ------------------------------------------------------------------- state

VARIABLES
  perms,        \* platform: granted host-permission patterns
  open,         \* platform: open[t], the tab exists (tabs.get succeeds)
  liveUrl,      \* platform: tab.url of an open tab
  script,       \* page: ids.js in the tab's document, and its EXPECTED_NONCE
  events,       \* platform: tab / navigation events not yet delivered
  inbox,        \* page-ids messages of the extractor not yet delivered
  tabState,     \* Map<tabId, state object>: the object's identity
  heap,         \* the state objects themselves
  injectedTabs, \* Set<tabId>
  tabNonce,     \* Map<tabId, nonce>
  nonceCtr,     \* nonces generated so far; each makeNonce() is a new value
  probeTimers,  \* Map<tabId, timer id>
  timers,       \* platform: pending timeouts
  tasks,        \* async handlers suspended at an await
  out,          \* messages the last step sent
  inputs,       \* environment inputs so far
  broken        \* history: the step rules, by name, that the last step broke

vars == <<perms, open, liveUrl, script, events, inbox, tabState, heap,
          injectedTabs, tabNonce, nonceCtr, probeTimers, timers, tasks, out,
          inputs, broken>>

platformVars == <<perms, open, liveUrl, script, events, inbox>>

ObjIds == 1..(Cardinality(TwoTabs) + MaxTasks)
TimerIds == 1..(Cardinality(TwoTabs) + 2)

NoScript == [present |-> FALSE, nonce |-> NoNonce]

Min(S) == CHOOSE x \in S : \A y \in S : x <= y

\* A suspended async function: where it resumes (pc) and what its closure holds.
NoTask ==
  [kind |-> "", pc |-> "", tab |-> NoTab, url |-> NoUrl, source |-> "",
   s |-> NoObj, origin |-> NoOrigin, enabled |-> FALSE, payload |-> <<"", "", "">>,
   nonce |-> NoNonce, deb |-> -1, result |-> FALSE, badge |-> FALSE,
   snapUrl |-> NoUrl, snapOrigin |-> NoOrigin, page |-> "", by |-> ""]

\* Objects some reference still reaches; the others are garbage.
Reachable(ts, tk) ==
  ({ts[t] : t \in DOMAIN ts} \cup {tk[i].s : i \in 1..Len(tk)}) \ {NoObj}

Gc(hp, ts, tk) ==
  [o \in ObjIds |-> IF o \in Reachable(ts, tk) THEN hp[o] ELSE newState]

RemoveAt(tk, i) == SubSeq(tk, 1, i - 1) \o SubSeq(tk, i + 1, Len(tk))

\* getState(tabId): the tab's object, created zeroed on first reference.
\* Returns the map, the heap and the object.
getState(ts, hp, tk, t) ==
  IF ts[t] # NoObj THEN [ts |-> ts, hp |-> hp, s |-> ts[t]]
  ELSE LET o == Min(ObjIds \ Reachable(ts, tk)) IN
       [ts |-> [ts EXCEPT ![t] = o], hp |-> [hp EXCEPT ![o] = newState], s |-> o]

\* Faulty variant: the key's previous timer is left running.
debouncedNoCancel(tm, pt, t, delay, by) ==
  LET used == {x.id : x \in tm} \cup {pt[u] : u \in DOMAIN pt \ {t}}
      id == Min(TimerIds \ used)
  IN [timers |-> tm \cup {[id |-> id, tab |-> t, delay |-> delay, by |-> by]},
      probeTimers |-> [pt EXCEPT ![t] = id]]

\* Faulty variant: one timer for all keys; a new call cancels whatever is
\* pending.
debouncedSharedTimer(tm, pt, t, delay, by) ==
  LET id == Min(TimerIds \ {pt[u] : u \in DOMAIN pt \ {t}})
  IN [timers |-> {[id |-> id, tab |-> t, delay |-> delay, by |-> by]},
      probeTimers |-> [pt EXCEPT ![t] = id]]

\* debounced(key, fn, delay): cancel the key's previous timer, start a new one.
\* fn is refreshPageIds(key) at every call; by records which call it was
\* ("count" for handleUrlChange's, after a counted transition).
debounced(tm, pt, t, delay, by) ==
  LET prev == pt[t]
      kept == {x \in tm : x.id # prev}
      used == {x.id : x \in kept} \cup {pt[u] : u \in DOMAIN pt \ {t}}
      id == Min(TimerIds \ used)
  IN [timers |-> kept \cup {[id |-> id, tab |-> t, delay |-> delay, by |-> by]},
      probeTimers |-> [pt EXCEPT ![t] = id]]

\* ---------------------------------------------------------------- messages

\* Faulty variant: the flag is what the state remembers, not what the
\* permission query answers.
SnapshotCachedFlag(t, url, origin, st, enabled) ==
  [type |-> "url-change-state", tabId |-> t, url |-> url, origin |-> origin,
   counts |-> st.counts, ids |-> st.ids,
   trackingEnabled |-> st.hasBaseline /\ st.origin = origin]

Snapshot(t, url, origin, st, enabled) ==
  [type |-> "url-change-state", tabId |-> t, url |-> url, origin |-> origin,
   counts |-> st.counts, ids |-> st.ids, trackingEnabled |-> enabled]

\* Faulty variant: the result always reports the origin as tracked.
TrackingResultAlwaysOn(origin, enabled, reason) ==
  [type |-> "set-tracking-result", origin |-> origin, enabled |-> TRUE,
   reason |-> reason]

TrackingResult(origin, enabled, reason) ==
  [type |-> "set-tracking-result", origin |-> origin, enabled |-> enabled,
   reason |-> reason]

InitProbe(t, nonce) == [type |-> "init-probe", tabId |-> t, nonce |-> nonce]
ProbeIds(t) == [type |-> "probe-ids", tabId |-> t]

\* ------------------------------------------------------------ code, pure

ProbeDelay == 150
ImmediateDelay == 0

\* Faulty variant: any sender that has a URL passes.
isFromAnyPage(senderUrl) == senderUrl # NoUrl

\* isFromExtensionUI(sender): the sender's URL starts with the extension's prefix.
isFromExtensionUI(senderUrl) ==
  senderUrl # NoUrl /\ senderUrl[1] = UrlExt[1] /\ senderUrl[2] = UrlExt[2]

\* Faulty variant: the permission of the tab's origin is not asked for.
isFromInjectedContentAnyOrigin(liveU, p) == liveU # NoUrl

\* isFromInjectedContent(sender) after the injection record: the tab has a URL
\* and the pattern of its origin is among the granted ones (p).
isFromInjectedContent(liveU, p) ==
  /\ liveU # NoUrl
  /\ LET u == toURL(liveU) IN <<u.protocol, u.host, "/*">> \in p

\* isFromInjectedContent when tabs.get or permissions.contains rejects: the
\* catch block answers false.
isFromInjectedContentThrows(liveU, p) == FALSE

\* /^https?:\/\/[^/]+$/ on the origin of a set-tracking message.
isHttpOrigin(origin) ==
  origin # NoOrigin /\ origin[1] \in {"http:", "https:"} /\ origin[2] # ""

\* makeNonce(): a value no earlier call returned; ctr counts the calls so far.
makeNonce(ctr) == ctr + 1

\* Faulty variant: every injection generates a new nonce.
nonceRegenerated(expected, ctr) == makeNonce(ctr)

\* "Generate or reuse a per-tab nonce": the nonce ensureInjectedWithNonce
\* stores and sends, given the one the tab holds (expected).
nonceForInjection(expected, ctr) ==
  IF expected = NoNonce THEN makeNonce(ctr) ELSE expected

\* Faulty variant: any message passes once the tab has been issued a nonce.
nonceIssued(expected, nonce) == expected # NoNonce

\* The page-ids nonce check: a nonce was issued and the message echoes it.
nonceMatches(expected, nonce) == expected # NoNonce /\ nonce = expected

\* Faulty variant: the stored string is compared with the parsed URL object,
\* which never equals it.
isDuplicateNever(prevUrl, url) == FALSE

\* handleUrlChange's de-duplication: the observed string is the stored one.
isDuplicate(prevUrl, url) == prevUrl = url

\* Faulty variant: the suppression flag is not looked at.
countsIdChangeUnsuppressed(changed, hasBaseline, suppress) ==
  changed /\ hasBaseline

\* An identifier change counts with a baseline and outside the suppressed cycle.
countsIdChange(changed, hasBaseline, suppress) ==
  changed /\ hasBaseline /\ ~suppress

\* Faulty variant: the incoming value is stored even when it is empty.
considerValueStoresEmpty(prev, val) == val

\* consider(key, val) of integratePageIds, on one identifier.
considerChanged(prev, val) == val # "" /\ prev # val
considerValue(prev, val) == IF val = "" THEN prev ELSE val

\* Faulty variant: the integration leaves the suppression flag up.
integratePageIdsKeepsFlag(st, incoming) ==
  LET cc == considerChanged(st.ids.canonical, incoming[1])
      oc == considerChanged(st.ids.ogUrl, incoming[2])
      jc == considerChanged(st.ids.jsonLdId, incoming[3])
  IN [idsChanged |-> cc \/ oc \/ jc,
      st |-> [st EXCEPT
               !.ids = [canonical |-> considerValue(st.ids.canonical, incoming[1]),
                        ogUrl |-> considerValue(st.ids.ogUrl, incoming[2]),
                        jsonLdId |-> considerValue(st.ids.jsonLdId, incoming[3])]]]

integratePageIds(st, incoming) ==
  LET suppress == st.suppressNextIdIncrements
      c == incoming[1]
      o == incoming[2]
      j == incoming[3]
      cc == considerChanged(st.ids.canonical, c)
      oc == considerChanged(st.ids.ogUrl, o)
      jc == considerChanged(st.ids.jsonLdId, j)
      inc(ch) == IF countsIdChange(ch, st.hasBaseline, suppress) THEN 1 ELSE 0
  IN [idsChanged |-> cc \/ oc \/ jc,
      st |-> [st EXCEPT
               !.ids = [canonical |-> considerValue(st.ids.canonical, c),
                        ogUrl |-> considerValue(st.ids.ogUrl, o),
                        jsonLdId |-> considerValue(st.ids.jsonLdId, j)],
               !.counts.ids = [canonical |-> @.canonical + inc(cc),
                               ogUrl |-> @.ogUrl + inc(oc),
                               jsonLdId |-> @.jsonLdId + inc(jc)],
               !.suppressNextIdIncrements = IF suppress THEN FALSE ELSE @]]

\* Faulty variant: a History API change is counted under spa only.
countTransitionSpaApart(st, url, source, diffs) ==
  [st EXCEPT
    !.counts.totals.all = IF source = "spa" THEN @ ELSE @ + 1,
    !.counts.totals.spa = IF source = "spa" THEN @ + 1 ELSE @,
    !.counts.totals.full = IF source = "spa" THEN @ ELSE @ + 1,
    !.counts.dims.path = IF diffs.path THEN @ + 1 ELSE @,
    !.counts.dims.query = IF diffs.query THEN @ + 1 ELSE @,
    !.counts.dims.fragment = IF diffs.fragment THEN @ + 1 ELSE @,
    !.lastUrl = url,
    !.origin = originOf(toURL(url))]

\* Faulty variant: the transition is counted once for every component changed.
countTransitionPerDimension(st, url, source, diffs) ==
  LET one(d) == IF d THEN 1 ELSE 0
      n == one(diffs.path) + one(diffs.query) + one(diffs.fragment)
  IN [st EXCEPT
       !.counts.totals.all = @ + n,
       !.counts.totals.spa = IF source = "spa" THEN @ + 1 ELSE @,
       !.counts.totals.full = IF source = "spa" THEN @ ELSE @ + 1,
       !.counts.dims.path = IF diffs.path THEN @ + 1 ELSE @,
       !.counts.dims.query = IF diffs.query THEN @ + 1 ELSE @,
       !.counts.dims.fragment = IF diffs.fragment THEN @ + 1 ELSE @,
       !.lastUrl = url,
       !.origin = originOf(toURL(url))]

\* The within-origin branch of handleUrlChange: count and advance lastUrl.
countTransition(st, url, source, diffs) ==
  [st EXCEPT
    !.counts.totals.all = @ + 1,
    !.counts.totals.spa = IF source = "spa" THEN @ + 1 ELSE @,
    !.counts.totals.full = IF source = "spa" THEN @ ELSE @ + 1,
    !.counts.dims.path = IF diffs.path THEN @ + 1 ELSE @,
    !.counts.dims.query = IF diffs.query THEN @ + 1 ELSE @,
    !.counts.dims.fragment = IF diffs.fragment THEN @ + 1 ELSE @,
    !.lastUrl = url,
    !.origin = originOf(toURL(url))]

\* Faulty variant: the tracking-off branch stores the URL and leaves the origin.
passiveLocationKeepsOrigin(st, url, origin) ==
  [st EXCEPT !.lastUrl = url, !.hasBaseline = TRUE]

\* Faulty variant: the tracking-off branch starts a new window like a baseline.
passiveLocationAsBaseline(st, url, origin) ==
  [st EXCEPT !.lastUrl = url, !.origin = origin, !.hasBaseline = TRUE,
             !.counts = newCounts, !.ids = newIds,
             !.suppressNextIdIncrements = TRUE]

\* Faulty variant: the tracking-off branch records the location and no baseline.
passiveLocationNoBaseline(st, url, origin) ==
  [st EXCEPT !.lastUrl = url, !.origin = origin]

\* Faulty variant: the tracking-off branch counts the observation.
passiveLocationCounted(st, url, origin) ==
  [st EXCEPT !.lastUrl = url, !.origin = origin, !.hasBaseline = TRUE,
             !.counts.totals.all = @ + 1, !.counts.totals.full = @ + 1]

\* The tracking-off branch of handleUrlChange: location only.
passiveLocation(st, url, origin) ==
  [st EXCEPT !.lastUrl = url, !.origin = origin, !.hasBaseline = TRUE]

\* Faulty variant: the tab is still taken to have a baseline.
clearedStateKeepsBaseline(st) ==
  [st EXCEPT !.lastUrl = NoUrl, !.origin = NoOrigin,
             !.counts = newCounts, !.ids = newIds]

\* baselineTab with no usable live URL: everything but the suppression flag cleared.
clearedState(st) ==
  [st EXCEPT !.lastUrl = NoUrl, !.origin = NoOrigin, !.hasBaseline = FALSE,
             !.counts = newCounts, !.ids = newIds]

\* Faulty variant: the baseline leaves the suppression flag as it finds it.
baselinedStateUnsuppressed(st, liveU) ==
  [st EXCEPT !.lastUrl = liveU, !.origin = originOf(toURL(liveU)),
             !.hasBaseline = TRUE, !.counts = newCounts, !.ids = newIds]

\* Faulty variant: the baseline moves the location and keeps the counters.
baselinedStateKeepsCounts(st, liveU) ==
  [st EXCEPT !.lastUrl = liveU, !.origin = originOf(toURL(liveU)),
             !.hasBaseline = TRUE, !.ids = newIds,
             !.suppressNextIdIncrements = TRUE]

\* baselineTab on a live URL of a supported scheme.
baselinedState(st, liveU) ==
  [st EXCEPT !.lastUrl = liveU, !.origin = originOf(toURL(liveU)),
             !.hasBaseline = TRUE, !.counts = newCounts, !.ids = newIds,
             !.suppressNextIdIncrements = TRUE]

\* Faulty variant: the missing baseline is not looked at.
hucBranchNoBaselineTest(st, url, enabled) ==
  LET prev == toURL(st.lastUrl)
      diffs == diffComponents(prev, toURL(url))
  IN IF ~enabled THEN "passive"
     ELSE IF isDuplicate(st.lastUrl, url) THEN "duplicate"
     ELSE IF prev.valid /\ diffs.origin THEN "baseline"
     ELSE "count"

\* Faulty variant: a change of origin is counted like any other change.
hucBranchNoOriginTest(st, url, enabled) ==
  IF ~enabled THEN "passive"
  ELSE IF ~st.hasBaseline THEN "baseline"
  ELSE IF isDuplicate(st.lastUrl, url) THEN "duplicate"
  ELSE "count"

\* What handleUrlChange does once the permission answer is in.
hucBranch(st, url, enabled) ==
  LET prev == toURL(st.lastUrl)
      diffs == diffComponents(prev, toURL(url))
  IN IF ~enabled THEN "passive"
     ELSE IF ~st.hasBaseline THEN "baseline"
     ELSE IF isDuplicate(st.lastUrl, url) THEN "duplicate"
     ELSE IF prev.valid /\ diffs.origin THEN "baseline"
     ELSE "count"

\* tabs.get(tabId).url, "" when the tab is gone.
LiveUrlOf(t) == IF open[t] THEN liveUrl[t] ELSE NoUrl

\* A task about to await broadcast(tabId) and updateBadge(tabId): the snapshot's
\* url and origin are read from the state now, the rest when it is sent.
AwaitTail(task, st, deb, result, badge) ==
  [task EXCEPT !.pc = "tail", !.snapUrl = st.lastUrl, !.snapOrigin = st.origin,
               !.deb = deb, !.result = result, !.badge = badge,
               !.url = NoUrl, !.source = "", !.payload = <<"", "", "">>,
               !.nonce = NoNonce, !.page = "", !.by = ""]

\* A task entering baselineTab(tabId): getState, then await tabs.get.
AwaitLive(task, s, deb, result) ==
  [task EXCEPT !.pc = "live", !.s = s, !.deb = deb, !.result = result]

\* ------------------------------------------------------------------- Init

TrackOrigins == HttpOrigins \cup {<<"file:", "">>}

Init ==
  /\ perms \in {{}, {patternForOrigin(OriginA)},
               {patternForOrigin(OriginA), patternForOrigin(OriginB)}}
  /\ open = [t \in Tabs |-> TRUE]
  /\ liveUrl = [t \in Tabs |-> UrlA]
  /\ script = [t \in Tabs |-> NoScript]
  /\ events = {}
  /\ inbox = {}
  /\ tabState = [t \in Tabs |-> NoObj]
  /\ heap = [o \in ObjIds |-> newState]
  /\ injectedTabs = {}
  /\ tabNonce = [t \in Tabs |-> NoNonce]
  /\ nonceCtr = 0
  /\ probeTimers = [t \in Tabs |-> NoTimer]
  /\ timers = {}
  /\ tasks = <<>>
  /\ out = <<>>
  /\ inputs = [total |-> 0, racing |-> 0]
  /\ broken = {}

\* ------------------------------------------------------- platform, inputs

\* Nothing is pending: the add-on has settled since the last input.
Idle == tasks = <<>> /\ events = {} /\ timers = {} /\ inbox = {}

\* An input that arrives while the add-on is busy takes two units of the
\* budget of inputs: a behaviour has MaxInputs inputs one after the other, or
\* fewer with some of them racing the handlers.
Input ==
  /\ inputs.total < MaxInputs
  /\ Idle \/ (inputs.racing < MaxRaces /\ inputs.total + 1 < MaxInputs)
  /\ inputs' = [total |-> IF Idle THEN inputs.total + 1 ELSE inputs.total + 2,
                racing |-> IF Idle THEN inputs.racing ELSE inputs.racing + 1]

\* The tab's main frame moves to url: by a new document (full) or by the
\* History API (spa, same origin only). tabs.onUpdated always reports it;
\* webNavigation reports it only for hosts with permission.
\* The events of one navigation are delivered before the tab moves again.
\* A new document ends the extractor of the old one; what that extractor has
\* sent and the background has not yet judged is from then on the result of an
\* earlier page load (page: "live" for the tab's present document, "earlier"
\* for one since replaced, "" for a message no extractor sent).
Navigate(t, url, kind) ==
  /\ Input
  /\ open[t] /\ events = {} /\ url # liveUrl[t]
  /\ kind = "spa" =>
       /\ isCoreProtocol(liveUrl[t])
       /\ originOf(toURL(url)) = originOf(toURL(liveUrl[t]))
  /\ liveUrl' = [liveUrl EXCEPT ![t] = url]
  /\ script' = IF kind = "full" THEN [script EXCEPT ![t] = NoScript] ELSE script
  /\ events' =
       {[type |-> "updated", tab |-> t, url |-> url]}
       \cup (IF hasHostPerm(perms, originOf(toURL(url)))
             THEN {[type |-> IF kind = "spa" THEN "history" ELSE "committed",
                    tab |-> t, url |-> url]}
             ELSE {})
       \cup (IF kind = "full"
             THEN {[type |-> "complete", tab |-> t, url |-> NoUrl]} ELSE {})
  /\ inbox' = IF kind = "full"
              THEN {IF m.tab = t THEN [m EXCEPT !.page = "earlier"] ELSE m : m \in inbox}
              ELSE inbox
  /\ tasks' = IF kind = "full"
              THEN [i \in 1..Len(tasks) |->
                     IF tasks[i].tab = t /\ tasks[i].page = "live"
                     THEN [tasks[i] EXCEPT !.page = "earlier"] ELSE tasks[i]]
              ELSE tasks
  /\ out' = <<>>
  /\ UNCHANGED <<perms, open, tabState, heap, injectedTabs, tabNonce,
                 nonceCtr, probeTimers, timers>>

\* The user grants or revokes a host permission (door-hanger, add-on manager,
\* or the sidebar's own permissions.request / permissions.remove).
GrantPermission(o) ==
  /\ Input
  /\ patternForOrigin(o) \notin perms
  /\ perms' = perms \cup {patternForOrigin(o)}
  /\ out' = <<>>
  /\ UNCHANGED <<open, liveUrl, script, events, inbox, tabState, heap,
                 injectedTabs, tabNonce, nonceCtr, probeTimers, timers, tasks>>

RevokePermission(o) ==
  /\ Input
  /\ patternForOrigin(o) \in perms
  /\ perms' = perms \ {patternForOrigin(o)}
  /\ out' = <<>>
  /\ UNCHANGED <<open, liveUrl, script, events, inbox, tabState, heap,
                 injectedTabs, tabNonce, nonceCtr, probeTimers, timers, tasks>>

\* --------------------------------------------------------------- listeners

\* handleUrlChange up to its first await (the permission query), with room
\* for limit handlers in flight.
handleUrlChangeWithin(limit, t, url, source) ==
  IF ~isCoreProtocol(url)
  THEN UNCHANGED <<tabState, heap, tasks>>
  ELSE /\ Len(tasks) < limit
       /\ LET g == getState(tabState, heap, tasks, t) IN
          /\ tabState' = g.ts
          /\ tasks' = Append(tasks, [NoTask EXCEPT !.kind = "huc", !.pc = "perm",
                                      !.tab = t, !.url = url, !.source = source,
                                      !.s = g.s])
          /\ heap' = Gc(g.hp, tabState', tasks')

handleUrlChange(t, url, source) == handleUrlChangeWithin(MaxTasks, t, url, source)

\* tabs.onUpdated (url), webNavigation.onCommitted, onHistoryStateUpdated.
UrlEvent(e) ==
  /\ e \in events /\ e.type \in {"updated", "committed", "history"}
  /\ events' = events \ {e}
  /\ handleUrlChange(e.tab, e.url, IF e.type = "history" THEN "spa" ELSE "full")
  /\ out' = <<>>
  /\ UNCHANGED <<perms, open, liveUrl, script, inbox, injectedTabs, tabNonce,
                 nonceCtr, probeTimers, timers, inputs>>

\* A URL event is delivered while the handlers in flight all wait for their
\* permission query: its handler starts beside them.
UrlEventOverlaps(e) ==
  /\ e \in events /\ e.type \in {"updated", "committed", "history"}
  /\ isCoreProtocol(e.url)
  /\ Len(tasks) >= MaxTasks
  /\ \A i \in 1..Len(tasks) : tasks[i].kind = "huc" /\ tasks[i].pc = "perm"
  /\ events' = events \ {e}
  /\ handleUrlChangeWithin(MaxOverlap, e.tab, e.url,
                           IF e.type = "history" THEN "spa" ELSE "full")
  /\ out' = <<>>
  /\ UNCHANGED <<perms, open, liveUrl, script, inbox, injectedTabs, tabNonce,
                 nonceCtr, probeTimers, timers, inputs>>

\* tabs.onUpdated (status complete).
LoadComplete(e) ==
  /\ e \in events /\ e.type = "complete"
  /\ events' = events \ {e}
  /\ LET d == debounced(timers, probeTimers, e.tab, ProbeDelay, "") IN
     timers' = d.timers /\ probeTimers' = d.probeTimers
  /\ out' = <<>>
  /\ UNCHANGED <<perms, open, liveUrl, script, inbox, tabState, heap,
                 injectedTabs, tabNonce, nonceCtr, tasks, inputs>>

\* The tab closes; tabs.onRemoved.
TabRemoved(t) ==
  /\ Input
  /\ open[t]
  /\ open' = [open EXCEPT ![t] = FALSE]
  /\ liveUrl' = [liveUrl EXCEPT ![t] = NoUrl]
  /\ script' = [script EXCEPT ![t] = NoScript]
  /\ events' = {e \in events : e.tab # t}
  /\ tabState' = [tabState EXCEPT ![t] = NoObj]
  /\ heap' = Gc(heap, tabState', tasks)
  /\ injectedTabs' = injectedTabs \ {t}
  /\ tabNonce' = [tabNonce EXCEPT ![t] = NoNonce]
  /\ timers' = {x \in timers : x.id # probeTimers[t]}
  /\ probeTimers' = [probeTimers EXCEPT ![t] = NoTimer]
  /\ out' = <<>>
  /\ UNCHANGED <<perms, inbox, nonceCtr, tasks>>

\* tabs.onActivated up to its first await (tabs.get).
TabActivated(t) ==
  /\ Input
  /\ open[t] /\ Len(tasks) < MaxTasks
  /\ tasks' = Append(tasks, [NoTask EXCEPT !.kind = "activated", !.pc = "act",
                              !.tab = t])
  /\ out' = <<>>
  /\ UNCHANGED <<perms, open, liveUrl, script, events, inbox, tabState, heap,
                 injectedTabs, tabNonce, nonceCtr, probeTimers, timers>>

\* ------------------------------------------------------------ UI messages

\* get-state: create the state, schedule a probe if no identifier is known,
\* then await the snapshot.
GetStateMsg(t, senderUrl) ==
  /\ Input
  /\ out' = <<>>
  /\ IF ~isFromExtensionUI(senderUrl)
     THEN UNCHANGED <<tabState, heap, tasks, timers, probeTimers>>
     ELSE /\ Len(tasks) < MaxTasks
          /\ LET g == getState(tabState, heap, tasks, t)
                 st == g.hp[g.s]
                 d == IF st.ids.canonical = "" /\ st.ids.ogUrl = "" /\ st.ids.jsonLdId = ""
                      THEN debounced(timers, probeTimers, t, ProbeDelay, "")
                      ELSE [timers |-> timers, probeTimers |-> probeTimers]
             IN /\ tabState' = g.ts
                /\ timers' = d.timers /\ probeTimers' = d.probeTimers
                /\ tasks' = Append(tasks,
                     AwaitTail([NoTask EXCEPT !.kind = "get-state", !.tab = t,
                                              !.s = g.s], st, -1, FALSE, FALSE))
                /\ heap' = Gc(g.hp, tabState', tasks')
  /\ UNCHANGED <<perms, open, liveUrl, script, events, inbox, injectedTabs,
                 tabNonce, nonceCtr>>

\* manual-reset: baselineTab(tabId).
ManualResetMsg(t, senderUrl) ==
  /\ Input
  /\ out' = <<>>
  /\ IF ~isFromExtensionUI(senderUrl)
     THEN UNCHANGED <<tabState, heap, tasks>>
     ELSE /\ Len(tasks) < MaxTasks
          /\ LET g == getState(tabState, heap, tasks, t) IN
             /\ tabState' = g.ts
             /\ tasks' = Append(tasks,
                  AwaitLive([NoTask EXCEPT !.kind = "manual-reset", !.tab = t],
                            g.s, -1, FALSE))
             /\ heap' = Gc(g.hp, tabState', tasks')
  /\ UNCHANGED <<perms, open, liveUrl, script, events, inbox, injectedTabs,
                 tabNonce, nonceCtr, probeTimers, timers>>

\* The tab a UI message's sender lives in: none for the sidebar, or a tab that
\* shows one of the extension's pages.
SenderTabs == {NoTab} \cup {t \in DOMAIN open : open[t] /\ liveUrl[t] = UrlExt}

\* set-tracking up to its first await.
SetTrackingMsg(origin, enabled, senderUrl, senderTab) ==
  /\ Input
  /\ senderTab \in SenderTabs
  /\ senderTab # NoTab => senderUrl = UrlExt
  /\ IF ~isFromExtensionUI(senderUrl)
     THEN /\ out' = <<>>
          /\ UNCHANGED <<perms, tabState, heap, tasks>>
     ELSE IF ~isHttpOrigin(origin)
     THEN /\ out' = <<TrackingResult(origin, FALSE, "unsupported_origin")>>
          /\ UNCHANGED <<perms, tabState, heap, tasks>>
     ELSE IF enabled /\ senderTab = NoTab
     THEN /\ out' = <<TrackingResult(origin, TRUE, "")>>
          /\ UNCHANGED <<perms, tabState, heap, tasks>>
     ELSE IF enabled
     THEN /\ Len(tasks) < MaxTasks
          /\ out' = <<>>
          /\ LET g == getState(tabState, heap, tasks, senderTab) IN
             /\ tabState' = g.ts
             /\ tasks' = Append(tasks,
                  AwaitLive([NoTask EXCEPT !.kind = "set-tracking", !.tab = senderTab,
                                           !.origin = origin, !.enabled = TRUE],
                            g.s, ImmediateDelay, TRUE))
             /\ heap' = Gc(g.hp, tabState', tasks')
          /\ UNCHANGED perms
     ELSE /\ Len(tasks) < MaxTasks
          /\ out' = <<>>
          /\ perms' = perms \ {patternForOrigin(origin)}
          /\ tasks' = Append(tasks, [NoTask EXCEPT !.kind = "set-tracking",
                                      !.pc = "revoked", !.tab = senderTab,
                                      !.origin = origin])
          /\ UNCHANGED <<tabState, heap>>
  /\ UNCHANGED <<open, liveUrl, script, events, inbox, injectedTabs, tabNonce,
                 nonceCtr, probeTimers, timers>>

\* ---------------------------------------------------------------- page-ids

\* A page-ids message arrives from tab t: isFromInjectedContent up to its
\* first await (the injection record is read at once).
pageIdsArrives(t, payload, nonce, page, by) ==
  IF t \notin injectedTabs
  THEN UNCHANGED tasks
  ELSE /\ Len(tasks) < MaxTasks
       /\ tasks' = Append(tasks, [NoTask EXCEPT !.kind = "page-ids", !.pc = "sender",
                                   !.tab = t, !.payload = payload, !.nonce = nonce,
                                   !.page = page, !.by = by])

\* The extractor's own message is delivered.
PageIdsMsg(m) ==
  /\ m \in inbox
  /\ inbox' = inbox \ {m}
  /\ pageIdsArrives(m.tab, m.payload, m.nonce, m.page, m.by)
  /\ out' = <<>>
  /\ UNCHANGED <<perms, open, liveUrl, script, events, tabState, heap,
                 injectedTabs, tabNonce, nonceCtr, probeTimers, timers, inputs>>

\* A page-ids message with any nonce: none, the tab's current one, a wrong one.
ForgedPageIdsMsg(t, payload, nonce) ==
  /\ Input
  /\ nonce \in {tabNonce[t], WrongNonce}
  /\ pageIdsArrives(t, payload, nonce, "", "")
  /\ out' = <<>>
  /\ UNCHANGED <<perms, open, liveUrl, script, events, inbox, tabState, heap,
                 injectedTabs, tabNonce, nonceCtr, probeTimers, timers>>

\* ------------------------------------------------------------------ timers

IsRefresh(task) == task.kind = "refresh"

\* A debounce timer fires: refreshPageIds up to its first await.
TimerFires(x) ==
  /\ x \in timers
  /\ Len(tasks) < MaxTasks
  /\ Cardinality(inbox) + Len(SelectSeq(tasks, IsRefresh)) < MaxInbox
  /\ timers' = timers \ {x}
  /\ tasks' = Append(tasks, [NoTask EXCEPT !.kind = "refresh", !.pc = "inject",
                              !.tab = x.tab, !.by = x.by])
  /\ out' = <<>>
  /\ UNCHANGED <<perms, open, liveUrl, script, events, inbox, tabState, heap,
                 injectedTabs, tabNonce, nonceCtr, probeTimers, inputs>>

\* ------------------------------------------------- handlers, after an await

\* tabs.sendMessage to a tab that is gone rejects: nothing goes out.
Delivered(t, msgs) == IF open[t] THEN msgs ELSE <<>>

\* The extractor's init-probe handler: a string of at least 8 characters (all
\* that makeNonce returns; NoNonce stands for anything else) becomes
\* EXPECTED_NONCE.
initProbe(scr, nonce) ==
  IF nonce # NoNonce THEN [scr EXCEPT !.nonce = nonce] ELSE scr

\* Faulty variant: a page answers probe-ids with whatever EXPECTED_NONCE is,
\* set or not.
probeIdsSentUnasked(t, scr, by) ==
  IF open[t]
  THEN inbox \cup {[tab |-> t, payload |-> PageIds(liveUrl[t]), nonce |-> scr.nonce,
                     page |-> "live", by |-> by]}
  ELSE inbox

\* The extractor answers probe-ids when it runs in the tab and holds a nonce;
\* the page decides what it reads. The possible inboxes afterwards.
probeIdsSent(t, scr, by) ==
  IF open[t] /\ scr.present /\ scr.nonce # NoNonce
  THEN inbox \cup {[tab |-> t, payload |-> PageIds(liveUrl[t]), nonce |-> scr.nonce,
                     page |-> "live", by |-> by]}
  ELSE inbox

\* handleUrlChange from the answer of hasHostPerm (trackingEnabled) on.
handleUrlChangeAnswered(i, trackingEnabled) ==
  /\ LET task == tasks[i]
         st == heap[task.s]
         origin == originOf(toURL(task.url))
         branch == hucBranch(st, task.url, trackingEnabled)
     IN CASE branch = "passive" ->
               LET st2 == passiveLocation(st, task.url, origin) IN
               /\ tabState' = [tabState EXCEPT ![task.tab] = task.s]
               /\ tasks' = [tasks EXCEPT ![i] = AwaitTail(task, st2, -1, FALSE, TRUE)]
               /\ heap' = Gc([heap EXCEPT ![task.s] = st2], tabState', tasks')
          [] branch = "baseline" ->
               LET g == getState(tabState, heap, tasks, task.tab) IN
               /\ tabState' = g.ts
               /\ tasks' = [tasks EXCEPT ![i] = AwaitLive(task, g.s, -1, FALSE)]
               /\ heap' = Gc(g.hp, tabState', tasks')
          [] branch = "duplicate" ->
               /\ tasks' = RemoveAt(tasks, i)
               /\ tabState' = tabState
               /\ heap' = Gc(heap, tabState', tasks')
          [] branch = "count" ->
               LET st2 == countTransition(st, task.url, task.source,
                            diffComponents(toURL(st.lastUrl), toURL(task.url)))
               IN
               /\ tabState' = [tabState EXCEPT ![task.tab] = task.s]
               /\ tasks' = [tasks EXCEPT ![i] =
                              AwaitTail(task, st2, ProbeDelay, FALSE, TRUE)]
               /\ heap' = Gc([heap EXCEPT ![task.s] = st2], tabState', tasks')
  /\ out' = <<>>
  /\ UNCHANGED <<perms, open, liveUrl, script, events, inbox, injectedTabs,
                 tabNonce, nonceCtr, probeTimers, timers, inputs>>

\* handleUrlChange once the permission query has answered.
HandleUrlChangeResumes(i) ==
  /\ i \in 1..Len(tasks) /\ tasks[i].pc = "perm"
  /\ handleUrlChangeAnswered(i,
       hasHostPerm(perms, originOf(toURL(tasks[i].url))))

\* handleUrlChange once the permission query has failed.
HandleUrlChangeQueryFails(i) ==
  /\ i \in 1..Len(tasks) /\ tasks[i].pc = "perm"
  /\ handleUrlChangeAnswered(i,
       hasHostPermThrows(perms, originOf(toURL(tasks[i].url))))

\* Faulty variant: the baseline trusts the URL of the event that led to it.
liveUrlFromEvent(task, tabUrl) == IF task.url # NoUrl THEN task.url ELSE tabUrl

\* baselineTab's liveUrl: what its own tabs.get answers, whoever called it.
liveUrlRead(task, tabUrl) == tabUrl

\* baselineTab once tabs.get has answered.
BaselineResumes(i) ==
  /\ i \in 1..Len(tasks) /\ tasks[i].pc = "live"
  /\ LET task == tasks[i]
         st == heap[task.s]
         liveU == liveUrlRead(task, LiveUrlOf(task.tab))
         usable == liveU # NoUrl /\ isCoreProtocol(liveU)
         st2 == IF usable THEN baselinedState(st, liveU) ELSE clearedState(st)
         deb == IF usable THEN ImmediateDelay ELSE task.deb
     IN /\ tabState' = [tabState EXCEPT ![task.tab] = task.s]
        /\ tasks' = [tasks EXCEPT ![i] = AwaitTail(task, st2, deb, task.result, TRUE)]
        /\ heap' = Gc([heap EXCEPT ![task.s] = st2], tabState', tasks')
  /\ out' = <<>>
  /\ UNCHANGED <<perms, open, liveUrl, script, events, inbox, injectedTabs,
                 tabNonce, nonceCtr, probeTimers, timers, inputs>>

\* broadcast and updateBadge are through: the snapshot is sent, updateBadge has
\* looked the state up, and the code after the two awaits has run (the probe is
\* scheduled, a set-tracking-result is sent).
TailResumes(i) ==
  /\ i \in 1..Len(tasks) /\ tasks[i].pc = "tail"
  /\ LET task == tasks[i]
         t == task.tab
         st == heap[task.s]
         liveU == LiveUrlOf(t)
         url == IF task.snapUrl # NoUrl THEN task.snapUrl ELSE liveU
         origin == IF task.snapUrl # NoUrl THEN task.snapOrigin
                   ELSE IF liveU # NoUrl THEN originOf(toURL(liveU))
                   ELSE NoOrigin
         snap == Snapshot(t, url, origin, st, hasHostPerm(perms, origin))
         rest == RemoveAt(tasks, i)
         g == IF task.badge THEN getState(tabState, heap, rest, t)
              ELSE [ts |-> tabState, hp |-> heap, s |-> NoObj]
         by == IF task.kind = "huc" /\ task.deb = ProbeDelay THEN "count" ELSE ""
         d == IF task.deb >= 0 THEN debounced(timers, probeTimers, t, task.deb, by)
              ELSE [timers |-> timers, probeTimers |-> probeTimers]
     IN /\ tasks' = rest
        /\ tabState' = g.ts
        /\ heap' = Gc(g.hp, tabState', tasks')
        /\ timers' = d.timers /\ probeTimers' = d.probeTimers
        /\ out' = IF task.result
                  THEN <<snap, TrackingResult(task.origin, task.enabled, "")>>
                  ELSE <<snap>>
  /\ UNCHANGED <<perms, open, liveUrl, script, events, inbox, injectedTabs,
                 tabNonce, nonceCtr, inputs>>

\* tabs.onActivated once tabs.get has answered.
ActivatedResumes(i) ==
  /\ i \in 1..Len(tasks) /\ tasks[i].pc = "act"
  /\ LET task == tasks[i]
         t == task.tab
         url == liveUrl[t]
         core == url # NoUrl /\ isCoreProtocol(url)
         g == getState(tabState, heap, tasks, t)
     IN IF ~open[t]
        THEN \* tabs.get rejects; the catch block runs updateBadge
             /\ tasks' = RemoveAt(tasks, i)
             /\ tabState' = g.ts
             /\ heap' = Gc(g.hp, tabState', tasks')
        ELSE IF core
        THEN /\ tasks' = [tasks EXCEPT ![i] = [task EXCEPT !.pc = "actperm", !.url = url]]
             /\ UNCHANGED <<tabState, heap>>
        ELSE LET st2 == [g.hp[g.s] EXCEPT !.lastUrl = url, !.origin = NoOrigin,
                                          !.hasBaseline = (url # NoUrl)]
             IN /\ tabState' = g.ts
                /\ tasks' = [tasks EXCEPT ![i] =
                     AwaitTail([task EXCEPT !.s = g.s], st2, -1, FALSE, TRUE)]
                /\ heap' = Gc([g.hp EXCEPT ![g.s] = st2], tabState', tasks')
  /\ out' = <<>>
  /\ UNCHANGED <<perms, open, liveUrl, script, events, inbox, injectedTabs,
                 tabNonce, nonceCtr, probeTimers, timers, inputs>>

\* tabs.onActivated once the permission answer is in.
ActivatedPermResumes(i) ==
  /\ i \in 1..Len(tasks) /\ tasks[i].pc = "actperm"
  /\ LET task == tasks[i]
         t == task.tab
         origin == originOf(toURL(task.url))
         g == getState(tabState, heap, tasks, t)
     IN IF hasHostPerm(perms, origin)
        THEN /\ tabState' = g.ts
             /\ tasks' = [tasks EXCEPT ![i] = AwaitLive(task, g.s, ImmediateDelay, FALSE)]
             /\ heap' = Gc(g.hp, tabState', tasks')
        ELSE LET st2 == passiveLocation(g.hp[g.s], task.url, origin) IN
             /\ tabState' = g.ts
             /\ tasks' = [tasks EXCEPT ![i] =
                  AwaitTail([task EXCEPT !.s = g.s], st2, -1, FALSE, TRUE)]
             /\ heap' = Gc([g.hp EXCEPT ![g.s] = st2], tabState', tasks')
  /\ out' = <<>>
  /\ UNCHANGED <<perms, open, liveUrl, script, events, inbox, injectedTabs,
                 tabNonce, nonceCtr, probeTimers, timers, inputs>>

\* set-tracking (off) once permissions.remove is through.
SetTrackingOffResumes(i) ==
  /\ i \in 1..Len(tasks) /\ tasks[i].pc = "revoked"
  /\ LET task == tasks[i]
         t == task.tab
     IN IF t = NoTab
        THEN /\ tasks' = RemoveAt(tasks, i)
             /\ out' = <<TrackingResult(task.origin, FALSE, "")>>
             /\ UNCHANGED <<tabState, heap>>
        ELSE LET g == getState(tabState, heap, tasks, t)
                 st == g.hp[g.s]
                 st2 == [st EXCEPT !.counts = newCounts, !.ids = newIds]
             IN IF st.origin = task.origin
                THEN /\ tabState' = g.ts
                     /\ tasks' = [tasks EXCEPT ![i] =
                          AwaitTail([task EXCEPT !.s = g.s], st2, -1, TRUE, TRUE)]
                     /\ heap' = Gc([g.hp EXCEPT ![g.s] = st2], tabState', tasks')
                     /\ out' = <<>>
                ELSE /\ tasks' = RemoveAt(tasks, i)
                     /\ tabState' = g.ts
                     /\ heap' = Gc(g.hp, tabState', tasks')
                     /\ out' = <<TrackingResult(task.origin, FALSE, "")>>
  /\ UNCHANGED <<perms, open, liveUrl, script, events, inbox, injectedTabs,
                 tabNonce, nonceCtr, probeTimers, timers, inputs>>

\* The page-ids branch from the answer of isFromInjectedContent on: the nonce
\* check and the integration.
pageIdsAnswered(i, fromInjected) ==
  /\ LET task == tasks[i]
         t == task.tab
         g == getState(tabState, heap, tasks, t)
         r == integratePageIds(g.hp[g.s], task.payload)
     IN IF fromInjected /\ nonceMatches(tabNonce[t], task.nonce)
        THEN /\ tabState' = g.ts
             /\ tasks' = IF r.idsChanged
                         THEN [tasks EXCEPT ![i] =
                                AwaitTail([task EXCEPT !.s = g.s], r.st, -1, FALSE, TRUE)]
                         ELSE RemoveAt(tasks, i)
             /\ heap' = Gc([g.hp EXCEPT ![g.s] = r.st], tabState', tasks')
        ELSE /\ tasks' = RemoveAt(tasks, i)
             /\ UNCHANGED <<tabState, heap>>
  /\ out' = <<>>
  /\ UNCHANGED <<perms, open, liveUrl, script, events, inbox, injectedTabs,
                 tabNonce, nonceCtr, probeTimers, timers, inputs>>

\* isFromInjectedContent once tabs.get and permissions.contains have answered.
PageIdsResumes(i) ==
  /\ i \in 1..Len(tasks) /\ tasks[i].pc = "sender"
  /\ pageIdsAnswered(i, isFromInjectedContent(LiveUrlOf(tasks[i].tab), perms))

\* isFromInjectedContent once permissions.contains has failed.
PageIdsQueryFails(i) ==
  /\ i \in 1..Len(tasks) /\ tasks[i].pc = "sender"
  /\ pageIdsAnswered(i, isFromInjectedContentThrows(LiveUrlOf(tasks[i].tab), perms))

\* ensureInjectedWithNonce once tabs.get and the permission query have
\* answered: without a URL or permission it returns and refreshPageIds sends
\* probe-ids; with both it runs executeScript.
RefreshResumes(i) ==
  /\ i \in 1..Len(tasks) /\ tasks[i].pc = "inject"
  /\ LET task == tasks[i]
         t == task.tab
         liveU == LiveUrlOf(t)
         allowed == liveU # NoUrl /\ hasHostPerm(perms, originOf(toURL(liveU)))
     IN IF allowed
        THEN /\ script' = [script EXCEPT ![t] =
                             IF @.present THEN @ ELSE [present |-> TRUE, nonce |-> NoNonce]]
             /\ tasks' = [tasks EXCEPT ![i] = [task EXCEPT !.pc = "init"]]
             /\ out' = <<>>
             /\ UNCHANGED inbox
        ELSE /\ tasks' = RemoveAt(tasks, i)
             /\ out' = Delivered(t, <<ProbeIds(t)>>)
             /\ inbox' = probeIdsSent(t, script[t], task.by)
             /\ UNCHANGED script
  /\ heap' = Gc(heap, tabState, tasks')
  /\ UNCHANGED <<perms, open, liveUrl, events, tabState, injectedTabs, tabNonce,
                 nonceCtr, probeTimers, timers, inputs>>

\* ensureInjectedWithNonce after executeScript: the nonce is generated or
\* reused and sent (init-probe), the tab is recorded, and refreshPageIds sends
\* probe-ids.
RefreshInitResumes(i) ==
  /\ i \in 1..Len(tasks) /\ tasks[i].pc = "init"
  /\ LET task == tasks[i]
         t == task.tab
         nonce == nonceForInjection(tabNonce[t], nonceCtr)
         scr == IF open[t] /\ script[t].present
                THEN initProbe(script[t], nonce) ELSE script[t]
     IN /\ nonceCtr' = IF nonce > nonceCtr THEN nonce ELSE nonceCtr
        /\ tabNonce' = [tabNonce EXCEPT ![t] = nonce]
        /\ script' = [script EXCEPT ![t] = scr]
        /\ injectedTabs' = injectedTabs \cup {t}
        /\ inbox' = probeIdsSent(t, scr, task.by)
        /\ out' = Delivered(t, <<InitProbe(t, nonce), ProbeIds(t)>>)
  /\ tasks' = RemoveAt(tasks, i)
  /\ heap' = Gc(heap, tabState, tasks')
  /\ UNCHANGED <<perms, open, liveUrl, events, tabState, probeTimers, timers, inputs>>

\* -------------------------------------------------------------------- Next

Next ==
  \/ \E t \in DOMAIN open, url \in Urls, kind \in {"full", "spa"} : Navigate(t, url, kind)
  \/ \E o \in HttpOrigins : GrantPermission(o)
  \/ \E o \in HttpOrigins : RevokePermission(o)
  \/ \E t \in DOMAIN open : TabRemoved(t)
  \/ \E t \in DOMAIN open : TabActivated(t)
  \/ \E t \in DOMAIN open, u \in SenderUrls : GetStateMsg(t, u)
  \/ \E t \in DOMAIN open, u \in SenderUrls : ManualResetMsg(t, u)
  \/ \E o \in TrackOrigins, en \in BOOLEAN, u \in SenderUrls, t \in DOMAIN open \cup {NoTab} :
       SetTrackingMsg(o, en, u, t)
  \/ \E t \in DOMAIN open, p \in Payloads :
       \E n \in {tabNonce[t], WrongNonce} : ForgedPageIdsMsg(t, p, n)
  \/ \E e \in events : UrlEvent(e)
  \/ \E e \in events : LoadComplete(e)
  \/ \E m \in inbox : PageIdsMsg(m)
  \/ \E x \in timers : TimerFires(x)
  \/ \E i \in 1..Len(tasks) : HandleUrlChangeResumes(i)
  \/ \E i \in 1..Len(tasks) : BaselineResumes(i)
  \/ \E i \in 1..Len(tasks) : TailResumes(i)
  \/ \E i \in 1..Len(tasks) : ActivatedResumes(i)
  \/ \E i \in 1..Len(tasks) : ActivatedPermResumes(i)
  \/ \E i \in 1..Len(tasks) : SetTrackingOffResumes(i)
  \/ \E i \in 1..Len(tasks) : PageIdsResumes(i)
  \/ \E i \in 1..Len(tasks) : RefreshResumes(i)
  \/ \E i \in 1..Len(tasks) : RefreshInitResumes(i)

\* ------------------------------------------------------------- properties

\* The state a task's closure holds, and the state the map holds for a tab.
StateOf(task) == heap[task.s]
HasState(t) == tabState[t] # NoObj
TabStateOf(t) == heap[tabState[t]]

\* Every tab's entry is left as it was (objects nobody reaches are dropped).
TabStatesUnchanged ==
  /\ tabState' = tabState
  /\ \A t \in Tabs : HasState(t) => heap'[tabState[t]] = heap[tabState[t]]

\* Every entry the map holds is left as it was; entries may be added.
TabEntriesKept ==
  \A t \in Tabs :
    HasState(t) => tabState'[t] = tabState[t] /\ heap'[tabState[t]] = heap[tabState[t]]

\* A handler observes task.url with tracking enabled for its origin.
ObservedEnabled(task) == hasHostPerm(perms, originOf(toURL(task.url)))

\* C1: in every reachable state, of every state object (the tabs' entries and
\* the ones suspended handlers still hold), totals.all = totals.full + totals.spa.
TotalsAddUp ==
  \A o \in ObjIds :
    heap[o].counts.totals.all =
      heap[o].counts.totals.full + heap[o].counts.totals.spa

\* A tab has counted a full navigation and a History API change.
TotalsAddUpWitness ==
  \E t \in Tabs :
    /\ HasState(t)
    /\ TabStateOf(t).counts.totals.full >= 1
    /\ TabStateOf(t).counts.totals.spa >= 1

\* What C2 asks of one step (the claim is stated below).
NoCountWithoutBaselineStep ==
     \A o \in ObjIds : ~heap[o].hasBaseline => heap'[o].counts = newCounts

\* C2: whatever step is taken, a state object without a baseline has all nine
\* counters at zero after it: the first observation of a fresh tab (state just
\* created, full or spa, tracking on or off) counts nothing, and no counter
\* moves while hasBaseline is false.
\* The step rule is NoCountWithoutBaselineStep; broken names the rules the last step broke.
NoCountWithoutBaseline ==
  "NoCountWithoutBaseline" \notin broken

\* The only navigation so far has been observed by handleUrlChange, which has
\* given the fresh tab its baseline and is about to broadcast.
NoCountWithoutBaselineWitness ==
  /\ inputs.total = 1
  /\ \E i \in 1..Len(tasks) :
       /\ tasks[i].kind = "huc" /\ tasks[i].pc = "tail"
       /\ StateOf(tasks[i]).hasBaseline
       /\ StateOf(tasks[i]).counts = newCounts

\* What C3 asks of one step (the claim is stated below).
OriginChangeRebaselinesStep ==
     \A i \in 1..Len(tasks) :
       LET task == tasks[i]
           st == StateOf(task)
       IN /\ ( /\ HandleUrlChangeResumes(i)
               /\ ObservedEnabled(task) /\ st.hasBaseline /\ st.lastUrl # NoUrl
               /\ originOf(toURL(st.lastUrl)) # originOf(toURL(task.url)) )
               => /\ tasks'[i].pc = "live"
                  /\ TabEntriesKept
          /\ ( /\ BaselineResumes(i)
               /\ task.kind = "huc" /\ LiveUrlOf(task.tab) = task.url )
               => /\ heap'[task.s].counts = newCounts
                  /\ heap'[task.s].ids = newIds
                  /\ heap'[task.s].lastUrl = task.url
                  /\ heap'[task.s].origin = <<task.url[1], task.url[2]>>
                  /\ heap'[task.s].hasBaseline
                  /\ tabState'[task.tab] = task.s

\* C3: when handleUrlChange observes, with tracking enabled and a baseline at
\* another origin, a URL of a new origin, it counts nothing and calls
\* baselineTab; when baselineTab resumes and the tab still shows the observed
\* URL, the nine counters are zero, the three identifiers empty, and lastUrl
\* and origin are the observed URL and its origin.
\* The step rule is OriginChangeRebaselinesStep; broken names the rules the last step broke.
OriginChangeRebaselines ==
  "OriginChangeRebaselines" \notin broken

\* A tab that has counted within origin A has moved to origin B; handleUrlChange
\* has observed it, counted nothing and called baselineTab, which is about to
\* read the tab's URL.
OriginChangeRebaselinesWitness ==
  \E i \in 1..Len(tasks) :
    /\ tasks[i].kind = "huc" /\ tasks[i].pc = "live"
    /\ tasks[i].url = UrlB /\ LiveUrlOf(tasks[i].tab) = UrlB
    /\ tabState[tasks[i].tab] = tasks[i].s
    /\ StateOf(tasks[i]).origin = OriginA
    /\ StateOf(tasks[i]).counts.totals.all >= 1

\* What C4 asks of one step (the claim is stated below).
DuplicateIsNoOpStep ==
     \A i \in 1..Len(tasks) :
       LET task == tasks[i]
           st == StateOf(task)
       IN ( /\ HandleUrlChangeResumes(i)
            /\ ObservedEnabled(task) /\ st.hasBaseline /\ st.lastUrl = task.url )
            => /\ TabStatesUnchanged
               /\ tasks' = RemoveAt(tasks, i)
               /\ out' = <<>>
               /\ timers' = timers /\ probeTimers' = probeTimers

\* C4: when handleUrlChange observes, with tracking enabled and a baseline, the
\* very string stored as lastUrl, it ends there: every tab's state is as
\* before, nothing is sent, no timer is started or cancelled.
\* The step rule is DuplicateIsNoOpStep; broken names the rules the last step broke.
DuplicateIsNoOp ==
  "DuplicateIsNoOp" \notin broken

\* A redundant event for the URL the tab was just baselined or counted at is
\* about to be handled.
DuplicateIsNoOpWitness ==
  \E i \in 1..Len(tasks) :
    /\ tasks[i].kind = "huc" /\ tasks[i].pc = "perm"
    /\ ObservedEnabled(tasks[i])
    /\ StateOf(tasks[i]).hasBaseline
    /\ StateOf(tasks[i]).lastUrl = tasks[i].url
    /\ tabState[tasks[i].tab] = tasks[i].s

\* By how much a counter grows when its condition holds.
Plus(cond) == IF cond THEN 1 ELSE 0

\* What C5 asks of one step (the claim is stated below).
WithinOriginCountsStep ==
     \A i \in 1..Len(tasks) :
       LET task == tasks[i]
           st == StateOf(task)
           prev == toURL(st.lastUrl)
           next == toURL(task.url)
           now == heap'[task.s]
       IN ( /\ HandleUrlChangeResumes(i)
            /\ ObservedEnabled(task) /\ st.hasBaseline /\ st.lastUrl # NoUrl
            /\ st.lastUrl # task.url
            /\ originOf(prev) = originOf(next) )
            => /\ now.counts.totals.all = st.counts.totals.all + 1
               /\ now.counts.totals.spa =
                    st.counts.totals.spa + Plus(task.source = "spa")
               /\ now.counts.totals.full =
                    st.counts.totals.full + Plus(task.source # "spa")
               /\ now.counts.dims.path =
                    st.counts.dims.path + Plus(prev.pathname # next.pathname)
               /\ now.counts.dims.query =
                    st.counts.dims.query + Plus(prev.search # next.search)
               /\ now.counts.dims.fragment =
                    st.counts.dims.fragment + Plus(prev.hash # next.hash)
               /\ now.counts.ids = st.counts.ids
               /\ now.lastUrl = task.url
               /\ tabState'[task.tab] = task.s

\* C5: a within-origin observation (tracking enabled, baseline, URL other than
\* lastUrl) adds 1 to totals.all, 1 to totals.spa for a History API change and
\* to totals.full otherwise, 1 to each of path, query and fragment whose URL
\* component differs from lastUrl's, nothing to the identifier counters, and
\* makes the observed URL lastUrl.
\* The step rule is WithinOriginCountsStep; broken names the rules the last step broke.
WithinOriginCounts ==
  "WithinOriginCounts" \notin broken

\* Baseline at /p, a full navigation to /q, then a History API change to /q?x:
\* all = 2, full = 1, spa = 1, path = 1, query = 1, fragment = 0.
WithinOriginCountsWitness ==
  \E t \in Tabs :
    /\ HasState(t)
    /\ TabStateOf(t).lastUrl = UrlAqx
    /\ TabStateOf(t).counts.totals = [all |-> 2, full |-> 1, spa |-> 1]
    /\ TabStateOf(t).counts.dims = [path |-> 1, query |-> 1, fragment |-> 0]

\* The tab shows a URL whose origin has host permission.
LivePermitted(t) ==
  LiveUrlOf(t) # NoUrl /\ hasHostPerm(perms, originOf(toURL(LiveUrlOf(t))))

\* An identifier read from the page is there and is not the stored one.
Differs(prev, val) == val # "" /\ val # prev

\* What C6 asks of one step (the claim is stated below).
SuppressionOneShotStep ==
     /\ \A i \in 1..Len(tasks) :
          LET task == tasks[i]
              t == task.tab
              st == IF HasState(t) THEN TabStateOf(t) ELSE newState
              now == heap'[tabState'[t]]
              p == task.payload
          IN /\ ( /\ PageIdsResumes(i)
                  /\ LivePermitted(t)
                  /\ tabNonce[t] # NoNonce /\ task.nonce = tabNonce[t] )
                  => /\ tabState'[t] # NoObj
                     /\ ~now.suppressNextIdIncrements
                     /\ now.counts.totals = st.counts.totals
                     /\ now.counts.dims = st.counts.dims
                     /\ st.suppressNextIdIncrements => now.counts.ids = st.counts.ids
                     /\ (~st.suppressNextIdIncrements /\ st.hasBaseline) =>
                          now.counts.ids =
                            [canonical |-> st.counts.ids.canonical
                                             + Plus(Differs(st.ids.canonical, p[1])),
                             ogUrl |-> st.counts.ids.ogUrl
                                         + Plus(Differs(st.ids.ogUrl, p[2])),
                             jsonLdId |-> st.counts.ids.jsonLdId
                                            + Plus(Differs(st.ids.jsonLdId, p[3]))]
             /\ ( /\ BaselineResumes(i)
                  /\ LiveUrlOf(t) # NoUrl /\ isCoreProtocol(LiveUrlOf(t)) )
                  => heap'[task.s].suppressNextIdIncrements
     /\ \A t \in Tabs :
          ( /\ HasState(t) /\ tabState'[t] = tabState[t]
            /\ TabStateOf(t).suppressNextIdIncrements
            /\ ~heap'[tabState[t]].suppressNextIdIncrements )
            => \E i \in 1..Len(tasks) : tasks[i].tab = t /\ PageIdsResumes(i)

\* C6: baselineTab on a usable URL sets the suppression flag, and only an
\* accepted page-ids integration takes it down again. The accepted integration
\* that finds the flag set (the first one after the baseline) increments no
\* counter, whatever the identifiers, and clears the flag; an accepted
\* integration that finds a baseline and no flag adds 1 to the counter of each
\* identifier that is non-empty and differs from the stored value, and to no other.
\* The step rule is SuppressionOneShotStep; broken names the rules the last step broke.
SuppressionOneShot ==
  "SuppressionOneShot" \notin broken

\* After a baseline on /p the extractor's first answer was stored uncounted;
\* after a counted move to /q its second answer, with a new canonical link, the
\* same og:url and no JSON-LD id, has been counted under canonical alone.
SuppressionOneShotWitness ==
  \E t \in Tabs :
    /\ HasState(t)
    /\ ~TabStateOf(t).suppressNextIdIncrements
    /\ TabStateOf(t).ids = [canonical |-> "c2", ogUrl |-> "o1", jsonLdId |-> "j1"]
    /\ TabStateOf(t).counts.ids = [canonical |-> 1, ogUrl |-> 0, jsonLdId |-> 0]

\* The add-on with no host permission, and a user who never grants one:
\* tracking is disabled for every origin a tab can show.
InitOff == Init /\ perms = {}

NextOff ==
  \/ \E t \in Tabs, url \in Urls, kind \in {"full", "spa"} : Navigate(t, url, kind)
  \/ \E t \in Tabs : TabRemoved(t)
  \/ \E t \in Tabs : TabActivated(t)
  \/ \E t \in Tabs, u \in SenderUrls : GetStateMsg(t, u)
  \/ \E t \in Tabs, u \in SenderUrls : ManualResetMsg(t, u)
  \/ \E o \in TrackOrigins, en \in BOOLEAN, u \in SenderUrls, t \in Tabs \cup {NoTab} :
       SetTrackingMsg(o, en, u, t)
  \/ \E t \in Tabs, p \in Payloads :
       \E n \in {tabNonce[t], WrongNonce} : ForgedPageIdsMsg(t, p, n)
  \/ \E e \in events : UrlEvent(e)
  \/ \E e \in events : LoadComplete(e)
  \/ \E x \in timers : TimerFires(x)
  \/ \E i \in 1..Len(tasks) : HandleUrlChangeResumes(i)
  \/ \E i \in 1..Len(tasks) : BaselineResumes(i)
  \/ \E i \in 1..Len(tasks) : TailResumes(i)
  \/ \E i \in 1..Len(tasks) : ActivatedResumes(i)
  \/ \E i \in 1..Len(tasks) : ActivatedPermResumes(i)
  \/ \E i \in 1..Len(tasks) : SetTrackingOffResumes(i)
  \/ \E i \in 1..Len(tasks) : RefreshResumes(i)

\* What C7 asks of one step (the claim is stated below).
TrackingOffInertStep ==
  \A i \in 1..Len(tasks) :
    HandleUrlChangeResumes(i) =>
      /\ tabState'[tasks[i].tab] = tasks[i].s
      /\ heap'[tasks[i].s].lastUrl = tasks[i].url
      /\ heap'[tasks[i].s].origin = <<tasks[i].url[1], tasks[i].url[2]>>

\* C7: while tracking is disabled for every origin the tabs show, all nine
\* counters of every state object stay at zero through any number of URL
\* observations and page-ids messages, and each URL observation leaves the
\* observed URL and its origin in lastUrl and origin.
\* The step rule is TrackingOffInertStep; broken names the rules the last step broke.
TrackingOffInert ==
  /\ \A o \in ObjIds : heap[o].counts = newCounts
  /\ "TrackingOffInert" \notin broken

\* With nothing granted, a tab that had been observed at /p has moved on and
\* has been observed at /q.
TrackingOffInertWitness ==
  /\ perms = {}
  /\ inputs.total >= 2
  /\ \E i \in 1..Len(tasks) :
       /\ tasks[i].kind = "huc" /\ tasks[i].pc = "tail"
       /\ tasks[i].snapUrl = UrlAq
       /\ StateOf(tasks[i]).lastUrl = UrlAq
       /\ StateOf(tasks[i]).counts = newCounts

\* What C8 asks of one step (the claim is stated below).
PassiveObservationStep ==
     \A i \in 1..Len(tasks) :
       LET task == tasks[i]
           st == StateOf(task)
       IN (HandleUrlChangeResumes(i) /\ ~ObservedEnabled(task)) =>
            /\ tabState'[task.tab] = task.s
            /\ heap'[task.s] =
                 [st EXCEPT !.lastUrl = task.url,
                            !.origin = <<task.url[1], task.url[2]>>,
                            !.hasBaseline = TRUE]

\* C8: a URL observation whose origin has no permission when handleUrlChange
\* resumes changes the tab's state in lastUrl, origin and hasBaseline only: they
\* become the observed URL, its origin and true; counters, identifiers and
\* the suppression flag stay as they were.
\* The step rule is PassiveObservationStep; broken names the rules the last step broke.
PassiveObservation ==
  "PassiveObservation" \notin broken

\* A tab that has counted a transition has been observed at a URL without
\* permission; its counters are still there when the snapshot is about to go out.
PassiveObservationWitness ==
  \E i \in 1..Len(tasks) :
    /\ tasks[i].kind = "huc" /\ tasks[i].pc = "tail" /\ tasks[i].deb = -1
    /\ tabState[tasks[i].tab] = tasks[i].s
    /\ StateOf(tasks[i]).counts.totals.all >= 1
    /\ ~hasHostPerm(perms, StateOf(tasks[i]).origin)
    /\ ~StateOf(tasks[i]).suppressNextIdIncrements

\* C9: no probe timer is started for a tab, and no probe-ids is sent to it,
\* while the tab shows no URL whose origin has host permission.
ProbesOnlyWithPermission ==
  [][\A t \in Tabs :
       ( \/ \E x \in timers' \ timers : x.tab = t
         \/ \E k \in 1..Len(out') : out'[k] = ProbeIds(t) )
         => LivePermitted(t)
    ]_vars

\* What C10 asks of one step (the claim is stated below).
WrongNonceDroppedStep ==
     \A i \in 1..Len(tasks) :
       LET task == tasks[i]
           t == task.tab
       IN ( /\ PageIdsResumes(i)
            /\ (tabNonce[t] = NoNonce \/ task.nonce # tabNonce[t]) )
            => /\ TabStatesUnchanged
               /\ tasks' = RemoveAt(tasks, i)
               /\ out' = <<>>

\* C10: a page-ids message whose nonce is not the one the tab was last issued,
\* or that comes when none is issued, ends at the nonce check: every tab's
\* state is as before (identifiers, counters, suppression flag), nothing is
\* sent and nothing is left to send.
\* The step rule is WrongNonceDroppedStep; broken names the rules the last step broke.
WrongNonceDropped ==
  "WrongNonceDropped" \notin broken

\* A message with a foreign nonce and identifiers the tab does not hold yet
\* has passed the sender checks of a tab that holds a nonce and permission.
WrongNonceDroppedWitness ==
  \E i \in 1..Len(tasks) :
    LET task == tasks[i] IN
    /\ task.kind = "page-ids" /\ task.pc = "sender"
    /\ LivePermitted(task.tab)
    /\ tabNonce[task.tab] # NoNonce /\ task.nonce = WrongNonce
    /\ HasState(task.tab)
    /\ Differs(TabStateOf(task.tab).ids.canonical, task.payload[1])

\* C11 as stated: every run of ensureInjectedWithNonce that gets past the
\* permission check leaves the tab with a nonce other than the one it held.
NonceReplacedOnInjection ==
  [][\A i \in 1..Len(tasks) :
       RefreshInitResumes(i) =>
         /\ tabNonce'[tasks[i].tab] # NoNonce
         /\ tabNonce'[tasks[i].tab] # tabNonce[tasks[i].tab]
    ]_vars

\* What C11 asks of one step (the claim is stated below).
NonceIssuedOncePerTabStep ==
     /\ \A i \in 1..Len(tasks) :
          LET t == tasks[i].tab IN
          RefreshInitResumes(i) =>
            /\ tabNonce'[t] # NoNonce
            /\ tabNonce[t] = NoNonce => tabNonce'[t] > nonceCtr
            /\ tabNonce[t] # NoNonce => tabNonce'[t] = tabNonce[t]
            /\ open[t] => out'[1] = InitProbe(t, tabNonce'[t])
     /\ \A t \in Tabs :
          tabNonce[t] # NoNonce => tabNonce'[t] \in {tabNonce[t], NoNonce}

\* C11: a run of ensureInjectedWithNonce that gets past the permission check
\* generates a nonce only for a tab that holds none (the value is one never
\* issued before); a tab that holds one keeps it through every re-injection,
\* and the init-probe carries the tab's nonce. A nonce, once issued, changes
\* only by being deleted.
\* The step rule is NonceIssuedOncePerTabStep; broken names the rules the last step broke.
NonceIssuedOncePerTab ==
  "NonceIssuedOncePerTab" \notin broken

\* The tab was injected and holds a nonce; it has loaded a new document since,
\* ids.js has just been executed in it and the init-probe is about to be sent.
NonceIssuedOncePerTabWitness ==
  \E i \in 1..Len(tasks) :
    LET t == tasks[i].tab IN
    /\ tasks[i].kind = "refresh" /\ tasks[i].pc = "init"
    /\ t \in injectedTabs /\ tabNonce[t] # NoNonce
    /\ open[t] /\ script[t] = [present |-> TRUE, nonce |-> NoNonce]

\* The extractor of the tab's present document has been injected and holds a nonce.
ProbeInjected(t) == open[t] /\ script[t].present /\ script[t].nonce # NoNonce

\* C12 as stated: once the probe has been re-injected for a later page load, a
\* page-ids result of an earlier page load is not integrated: every tab's state
\* (identifiers, identifier counters) is as before.
StaleResultRejected ==
  [][\A i \in 1..Len(tasks) :
       (PageIdsResumes(i) /\ tasks[i].page = "earlier" /\ ProbeInjected(tasks[i].tab))
         => TabStatesUnchanged
    ]_vars

\* What C12 asks of one step (the claim is stated below).
StaleResultIntegratedStep ==
     \A i \in 1..Len(tasks) :
       LET task == tasks[i]
           t == task.tab
           st == IF HasState(t) THEN TabStateOf(t) ELSE newState
           now == heap'[tabState'[t]]
           p == task.payload
       IN (PageIdsResumes(i) /\ task.page = "earlier") =>
            /\ tabNonce[t] # NoNonce => task.nonce = tabNonce[t]
            /\ IF LivePermitted(t) /\ tabNonce[t] # NoNonce
               THEN /\ tabState'[t] # NoObj
                    /\ now.ids.canonical = (IF p[1] = "" THEN st.ids.canonical ELSE p[1])
                    /\ now.ids.ogUrl = (IF p[2] = "" THEN st.ids.ogUrl ELSE p[2])
                    /\ now.ids.jsonLdId = (IF p[3] = "" THEN st.ids.jsonLdId ELSE p[3])
               ELSE TabStatesUnchanged

\* C12: a page-ids result of an earlier page load carries the nonce the tab
\* still holds, re-injected or not, so the nonce check cannot tell it from a
\* result of the present page. It is integrated whenever the tab's live origin
\* holds permission (each non-empty identifier of it becomes the stored one),
\* and is dropped only when that permission or the tab is gone.
\* The step rule is StaleResultIntegratedStep; broken names the rules the last step broke.
StaleResultIntegrated ==
  "StaleResultIntegrated" \notin broken

\* The extractor answered at /p; the tab then loaded /q, the probe was
\* re-injected there, and the answer of /p, with identifiers /q does not carry,
\* has passed the sender checks.
StaleResultIntegratedWitness ==
  \E i \in 1..Len(tasks) :
    LET task == tasks[i]
        t == task.tab
    IN /\ task.kind = "page-ids" /\ task.pc = "sender" /\ task.page = "earlier"
       /\ ProbeInjected(t) /\ LivePermitted(t)
       /\ task.nonce = tabNonce[t]
       /\ HasState(t)
       /\ task.payload = PageIds(UrlA) /\ liveUrl[t] = UrlAq
       /\ Differs(TabStateOf(t).ids.jsonLdId, task.payload[3])

\* The sender's URL is not under moz-extension://<uuid>/.
Outsider(senderUrl) == <<senderUrl[1], senderUrl[2]>> # <<UrlExt[1], UrlExt[2]>>

\* What C13 asks of one step (the claim is stated below).
OutsiderUiMessageDroppedStep ==
     \A t \in Tabs, u \in SenderUrls :
       ( /\ Outsider(u)
         /\ \/ GetStateMsg(t, u)
            \/ ManualResetMsg(t, u)
            \/ \E o \in TrackOrigins, en \in BOOLEAN : SetTrackingMsg(o, en, u, NoTab) )
         => /\ UNCHANGED <<perms, tabState, heap, tasks, timers, probeTimers,
                           injectedTabs, tabNonce, inbox>>
            /\ out' = <<>>

\* C13: a get-state, manual-reset or set-tracking message whose sender URL is
\* not under the extension's own origin changes nothing: no tab state is
\* created or changed, no permission is removed, no timer is started or
\* cancelled, no handler is left running and nothing is sent.
\* The step rule is OutsiderUiMessageDroppedStep; broken names the rules the last step broke.
OutsiderUiMessageDropped ==
  "OutsiderUiMessageDropped" \notin broken

\* A tab with permission has counted a transition and nothing is pending; a
\* web page now sends manual-reset and set-tracking (off) for it, which from
\* the sidebar would zero the counters and remove the permission.
OutsiderUiMessageDroppedWitness ==
  \E t \in Tabs :
    /\ Idle /\ HasState(t) /\ LivePermitted(t)
    /\ TabStateOf(t).counts.totals.all >= 1
    /\ ENABLED ManualResetMsg(t, UrlA)
    /\ ENABLED SetTrackingMsg(originOf(toURL(LiveUrlOf(t))), FALSE, UrlA, NoTab)

\* What C14 asks of one step (the claim is stated below).
PageIdsNeedInjectionAndPermissionStep ==
     /\ \A i \in 1..Len(tasks) :
          (PageIdsResumes(i) /\ ~LivePermitted(tasks[i].tab))
            => /\ TabStatesUnchanged
               /\ tasks' = RemoveAt(tasks, i)
               /\ out' = <<>>
     /\ \A i \in 1..Len(tasks) :
          tasks[i].pc = "sender" => (tasks[i].tab \in injectedTabs \/ ~open[tasks[i].tab])
     /\ \A t \in Tabs :
          ( /\ t \notin injectedTabs
            /\ \/ \E p \in Payloads, n \in {tabNonce[t], WrongNonce} :
                    ForgedPageIdsMsg(t, p, n)
               \/ \E m \in inbox : m.tab = t /\ PageIdsMsg(m) )
            => UNCHANGED <<tabState, heap, tasks>> /\ out' = <<>>

UnsupportedSchemeIgnoredStep ==
     \A e \in events :
       (UrlEvent(e) /\ e.url[1] \notin {"http:", "https:", "file:"})
         => /\ UNCHANGED <<tabState, heap, tasks, timers, probeTimers, tabNonce,
                           injectedTabs, inbox, perms>>
            /\ out' = <<>>

\* C15: a URL observation (tabs.onUpdated with a URL, onCommitted,
\* onHistoryStateUpdated) whose scheme is not http, https or file ends at once:
\* the state store and every state object, the timers, the nonces and the
\* injection records are as before, no handler is left running and nothing is
\* sent.
\* The step rule is UnsupportedSchemeIgnoredStep; broken names the rules the last step broke.
UnsupportedSchemeIgnored ==
  "UnsupportedSchemeIgnored" \notin broken

\* A tab that has counted a transition has moved to about:blank; the URL event
\* has been delivered (the load-complete event is still to come) and the tab's
\* state still holds the counters and the last supported URL.
UnsupportedSchemeIgnoredWitness ==
  \E t \in Tabs :
    /\ liveUrl[t] = UrlAbout
    /\ events = {[type |-> "complete", tab |-> t, url |-> NoUrl]}
    /\ tasks = <<>>
    /\ HasState(t)
    /\ TabStateOf(t).counts.totals.all >= 1
    /\ isCoreProtocol(TabStateOf(t).lastUrl)

\* The background holds nothing for the tab: no state-store entry, no injection
\* record, no nonce, no probe timer.
Forgotten(t) ==
  /\ tabState[t] = NoObj
  /\ t \notin injectedTabs
  /\ tabNonce[t] = NoNonce
  /\ probeTimers[t] = NoTimer
  /\ \A x \in timers : x.tab # t

\* C16: once a closed tab is forgotten it stays forgotten through every step
\* that is not a new input or message for it, the resumption of a handler that
\* started before the close included.
ClosedTabStaysForgotten ==
  [][\A t \in Tabs :
       ( /\ ~open[t] /\ Forgotten(t)
         /\ inputs' = inputs
         /\ \A m \in inbox : m.tab = t => ~PageIdsMsg(m) )
         => Forgotten(t)'
    ]_vars

\* C17 as stated: in every state object, origin is the scheme and host of
\* lastUrl when lastUrl is present, and absent when lastUrl is absent.
OriginDerivedFromLastUrl ==
  \A o \in ObjIds :
    LET st == heap[o] IN
    IF st.lastUrl = NoUrl THEN st.origin = NoOrigin
    ELSE st.origin = <<st.lastUrl[1], st.lastUrl[2]>>

\* C17: in every state object, origin is the scheme and host of lastUrl when
\* lastUrl has a supported scheme (http, https, file), and absent when lastUrl
\* is absent or has another scheme, as after the activation of a tab that
\* shows about:blank or an extension page.
OriginFollowsLastUrl ==
  \A o \in ObjIds :
    LET st == heap[o] IN
    IF st.lastUrl # NoUrl /\ st.lastUrl[1] \in {"http:", "https:", "file:"}
    THEN st.origin = <<st.lastUrl[1], st.lastUrl[2]>>
    ELSE st.origin = NoOrigin

\* A tab has been activated while it shows about:blank: the URL is stored, the
\* origin is absent.
OriginFollowsLastUrlWitness ==
  \E t \in Tabs :
    /\ HasState(t)
    /\ TabStateOf(t).lastUrl = UrlAbout
    /\ TabStateOf(t).origin = NoOrigin
    /\ TabStateOf(t).hasBaseline

\* What C18 asks of one step (the claim is stated below).
ActivationBaselinesOrPassesStep ==
     \A i \in 1..Len(tasks) :
       LET task == tasks[i]
           t == task.tab
           st == IF HasState(t) THEN TabStateOf(t) ELSE newState
           now == heap'[tabState'[t]]
           liveU == LiveUrlOf(t)
       IN /\ (ActivatedPermResumes(i) /\ ObservedEnabled(task))
               => tasks'[i].pc = "live" /\ TabEntriesKept
          /\ ( /\ BaselineResumes(i) /\ task.kind = "activated"
               /\ liveU # NoUrl /\ liveU[1] \in {"http:", "https:", "file:"} )
               => /\ tabState'[t] = task.s
                  /\ now.counts = newCounts /\ now.ids = newIds
                  /\ now.suppressNextIdIncrements
                  /\ now.hasBaseline
                  /\ now.lastUrl = liveU
          /\ ( \/ ActivatedPermResumes(i) /\ open[t] /\ ~ObservedEnabled(task)
               \/ /\ ActivatedResumes(i) /\ open[t]
                  /\ liveU[1] \notin {"http:", "https:", "file:"} )
               => /\ tabState'[t] # NoObj
                  /\ now.counts = st.counts /\ now.ids = st.ids
                  /\ now.suppressNextIdIncrements = st.suppressNextIdIncrements
                  /\ now.lastUrl = (IF task.pc = "act" THEN liveU ELSE task.url)

\* C18: on tab activation, when the URL tabs.get returns has a supported scheme
\* and its origin holds permission, the listener calls baselineTab, and
\* baselineTab, finding the tab at a URL of a supported scheme, zeroes all
\* counters, empties the metadata, sets the suppression flag and stores the
\* live URL as lastUrl. Otherwise (unsupported scheme, or no permission) the
\* activation stores the URL tabs.get returned as lastUrl and leaves counters,
\* metadata and the suppression flag as they were.
\* The step rule is ActivationBaselinesOrPassesStep; broken names the rules the last step broke.
ActivationBaselinesOrPasses ==
  "ActivationBaselinesOrPasses" \notin broken

\* A tab that has counted a transition is activated while it shows a URL with
\* permission; the listener has called baselineTab, which is about to read the
\* tab's URL.
ActivationBaselinesOrPassesWitness ==
  \E i \in 1..Len(tasks) :
    LET task == tasks[i] IN
    /\ task.kind = "activated" /\ task.pc = "live"
    /\ LivePermitted(task.tab)
    /\ tabState[task.tab] = task.s
    /\ StateOf(task).counts.totals.all >= 1

\* What C19 asks of one step (the claim is stated below).
TrackingFlagFromPermissionsStep ==
     /\ \A k \in 1..Len(out') :
          out'[k].type = "url-change-state" =>
            out'[k].trackingEnabled = hasHostPerm(perms, out'[k].origin)
     /\ \A i \in 1..Len(tasks) :
          HandleUrlChangeResumes(i) =>
            ( ObservedEnabled(tasks[i]) <=>
                ~( /\ Len(tasks') = Len(tasks)
                   /\ tasks'[i].pc = "tail" /\ tasks'[i].deb = -1 ) )

\* C19: the trackingEnabled of every snapshot sent is the answer of the
\* permission query for the snapshot's origin on the granted set as it is when
\* the snapshot is assembled, and a URL observation takes the tracking-off
\* branch exactly when its origin holds no permission as handleUrlChange
\* resumes: no flag is kept that could disagree with the permission set.
\* The step rule is TrackingFlagFromPermissionsStep; broken names the rules the last step broke.
TrackingFlagFromPermissions ==
  "TrackingFlagFromPermissions" \notin broken

\* A tab was baselined at origin A with tracking enabled; the permission was
\* revoked while the snapshot was being assembled, and the snapshot that went
\* out carries trackingEnabled = false beside a state that still holds the
\* baseline's suppression flag.
TrackingFlagFromPermissionsWitness ==
  \E k \in 1..Len(out) :
    /\ out[k].type = "url-change-state"
    /\ out[k].origin = OriginA
    /\ ~out[k].trackingEnabled
    /\ HasState(out[k].tabId)
    /\ TabStateOf(out[k].tabId).suppressNextIdIncrements

\* The add-on on a platform whose permission query can fail under
\* handleUrlChange and under the page-ids check, started with the permission
\* of origin A granted.
InitGranted == Init /\ perms = {patternForOrigin(OriginA)}

NextQueryFails ==
  \/ Next
  \/ \E i \in 1..Len(tasks) : HandleUrlChangeQueryFails(i)
  \/ \E i \in 1..Len(tasks) : PageIdsQueryFails(i)

\* What C20 asks of one step (the claim is stated below).
QueryFailureIsTrackingOffStep ==
     \A i \in 1..Len(tasks) :
       LET task == tasks[i]
           st == StateOf(task)
       IN /\ HandleUrlChangeQueryFails(i) =>
               /\ tabState'[task.tab] = task.s
               /\ heap'[task.s] =
                    [st EXCEPT !.lastUrl = task.url,
                               !.origin = <<task.url[1], task.url[2]>>,
                               !.hasBaseline = TRUE]
               /\ tasks'[i].pc = "tail" /\ tasks'[i].deb = -1
               /\ timers' = timers /\ probeTimers' = probeTimers
          /\ PageIdsQueryFails(i) =>
               /\ TabStatesUnchanged
               /\ tasks' = RemoveAt(tasks, i)
               /\ out' = <<>>

\* C20: when the permission query fails under a URL observation, the handler
\* goes on as with tracking disabled: it stores the observed URL, its origin
\* and hasBaseline, leaves counters, metadata and the suppression flag alone,
\* schedules no probe and goes on to broadcast. When it fails under the check
\* of a page-ids message, the message ends there: every tab's state is as
\* before and nothing is sent.
\* The step rule is QueryFailureIsTrackingOffStep; broken names the rules the last step broke.
QueryFailureIsTrackingOff ==
  "QueryFailureIsTrackingOff" \notin broken

\* No input has raced with a handler, so the permission of origin A has been
\* held since before the observation started; yet the observation of a new
\* URL at A, in a tab that has counted before, has taken the tracking-off
\* branch: the query had failed.
QueryFailureIsTrackingOffWitness ==
  \E i \in 1..Len(tasks) :
    LET task == tasks[i] IN
    /\ inputs.racing = 0
    /\ task.kind = "huc" /\ task.pc = "tail" /\ task.deb = -1
    /\ task.snapOrigin = OriginA /\ hasHostPerm(perms, OriginA)
    /\ tabState[task.tab] = task.s
    /\ StateOf(task).counts.totals.all >= 1

\* The sidebar's toggle listener after permissions.request for origin o was
\* refused: o holds no permission, and the sidebar (a page of the extension
\* outside any tab) sends set-tracking(o, false).
RefusedRequest(o) ==
  /\ patternForOrigin(o) \notin perms
  /\ SetTrackingMsg(o, FALSE, UrlExt, NoTab)

\* What C21 asks of one step (the claim is stated below).
RefusalSurfacedAsResultStep ==
     /\ \A o \in HttpOrigins :
          RefusedRequest(o) =>
            /\ perms' = perms
            /\ TabStatesUnchanged
            /\ \E i \in 1..Len(tasks') :
                 /\ tasks'[i].pc = "revoked" /\ tasks'[i].origin = o
                 /\ tasks'[i].tab = NoTab
     /\ \A i \in 1..Len(tasks) :
          (SetTrackingOffResumes(i) /\ tasks[i].tab = NoTab) =>
            /\ out' = <<[type |-> "set-tracking-result", origin |-> tasks[i].origin,
                         enabled |-> FALSE, reason |-> ""]>>
            /\ perms' = perms
            /\ TabStatesUnchanged
            /\ tasks' = RemoveAt(tasks, i)

\* C21: a refused permission request reaches the background as
\* set-tracking(origin, false) and is answered with a set-tracking-result for
\* that origin with enabled = false; neither step of the handler changes the
\* granted set, so the origin stays without permission, and no state object
\* changes on the way (no counter moves).
\* The step rule is RefusalSurfacedAsResultStep; broken names the rules the last step broke.
RefusalSurfacedAsResult ==
  "RefusalSurfacedAsResult" \notin broken

\* Nothing was ever granted; the first thing that happened was a refused
\* request for origin B, and its set-tracking-result has just been sent.
RefusalSurfacedAsResultWitness ==
  /\ inputs.total = 1
  /\ perms = {}
  /\ out = <<[type |-> "set-tracking-result", origin |-> OriginB,
              enabled |-> FALSE, reason |-> ""]>>

\* What C22 asks of one step (the claim is stated below).
ExtractorNeedsNonceStep ==
     \A m \in inbox' \ inbox :
       m.page = "live" =>
         /\ script'[m.tab].present
         /\ script'[m.tab].nonce # NoNonce
         /\ m.nonce = script'[m.tab].nonce

TimersOf(tm, t) == {x \in tm : x.tab = t}

\* What C23 asks of one step (the claim is stated below).
BaselineResultStep ==
     \A i \in 1..Len(tasks) :
       LET task == tasks[i]
           t == task.tab
           liveU == LiveUrlOf(t)
       IN /\ ( /\ BaselineResumes(i)
               /\ liveU # NoUrl /\ liveU[1] \in {"http:", "https:", "file:"} )
               => /\ tabState'[t] = task.s
                  /\ heap'[task.s].counts = newCounts
                  /\ heap'[task.s].ids = newIds
                  /\ heap'[task.s].lastUrl = liveU
                  /\ heap'[task.s].origin = <<liveU[1], liveU[2]>>
                  /\ heap'[task.s].hasBaseline
                  /\ heap'[task.s].suppressNextIdIncrements
                  /\ tasks'[i].pc = "tail" /\ tasks'[i].deb = 0
          /\ (TailResumes(i) /\ task.deb = 0)
               => /\ Cardinality(TimersOf(timers', t)) = 1
                  /\ \A x \in TimersOf(timers', t) :
                       x.delay = 0 /\ x.id = probeTimers'[t]
          /\ ( /\ PageIdsResumes(i) /\ HasState(t)
               /\ TabStateOf(t).suppressNextIdIncrements )
               => /\ tabState'[t] = tabState[t]
                  /\ heap'[tabState[t]].counts = TabStateOf(t).counts

\* C23: whatever called it (first observation, origin change, tab focus,
\* manual reset, set-tracking enable), baselineTab on a live URL of a supported
\* scheme leaves the nine counters zero, the three identifiers empty, lastUrl
\* and origin the live URL and its origin, hasBaseline and the suppression flag
\* set; when its broadcast is through, exactly one probe timer is pending for
\* the tab, with delay 0. The integration that finds the flag set increments no
\* identifier counter, whatever the identifiers stored before the baseline.
\* The step rule is BaselineResultStep; broken names the rules the last step broke.
BaselineResult ==
  "BaselineResult" \notin broken

\* Manual reset of a tab that has counted and holds a canonical link:
\* baselineTab is about to read the tab's URL, whose page carries a canonical
\* link too.
BaselineResultWitness ==
  \E i \in 1..Len(tasks) :
    LET task == tasks[i]
        t == task.tab
    IN /\ task.kind = "manual-reset" /\ task.pc = "live"
       /\ tabState[t] = task.s
       /\ LivePermitted(t)
       /\ StateOf(task).counts.totals.all >= 1
       /\ StateOf(task).ids.canonical # ""
       /\ PageIds(LiveUrlOf(t))[1] # ""

\* The handlers that call baselineTab.
BaselineCallers == {"huc", "activated", "manual-reset", "set-tracking"}

\* A baselineTab that took the branch of the unusable live URL and awaits its
\* broadcast.
ClearedTail(task) ==
  /\ task.pc = "tail" /\ task.kind \in BaselineCallers
  /\ task.snapUrl = NoUrl /\ ~StateOf(task).hasBaseline

\* What C24 asks of one step (the claim is stated below).
UnusableLiveUrlClearsStateStep ==
     \A i \in 1..Len(tasks) :
       LET task == tasks[i]
           t == task.tab
           liveU == LiveUrlOf(t)
       IN /\ ( /\ BaselineResumes(i)
               /\ liveU = NoUrl \/ liveU[1] \notin {"http:", "https:", "file:"} )
               => /\ tabState'[t] = task.s
                  /\ heap'[task.s].lastUrl = NoUrl
                  /\ heap'[task.s].origin = NoOrigin
                  /\ ~heap'[task.s].hasBaseline
                  /\ heap'[task.s].counts = newCounts
                  /\ heap'[task.s].ids = newIds
                  /\ tasks'[i].pc = "tail" /\ tasks'[i].snapUrl = NoUrl
                  /\ tasks'[i].deb = task.deb
                  /\ timers' = timers /\ probeTimers' = probeTimers
          /\ (TailResumes(i) /\ ClearedTail(task))
               => /\ out'[1].type = "url-change-state" /\ out'[1].tabId = t
                  /\ out'[1].counts = newCounts /\ out'[1].ids = newIds
                  /\ task.kind \in {"huc", "manual-reset"}
                       => timers' = timers /\ probeTimers' = probeTimers

\* C24: when tabs.get fails, or the live URL is absent or of an unsupported
\* scheme, baselineTab leaves the tab's state with lastUrl and origin absent,
\* hasBaseline false, the nine counters zero and the three identifiers empty,
\* broadcasts the snapshot of that state, and schedules no probe: no timer is
\* touched while it runs, and when it has returned the only probe scheduled
\* is the one its caller asks for after it (tab focus and set-tracking enable
\* do, an observed URL and manual-reset do not).
\* The step rule is UnusableLiveUrlClearsStateStep; broken names the rules the last step broke.
UnusableLiveUrlClearsState ==
  "UnusableLiveUrlClearsState" \notin broken

\* Manual reset of a tab that has a baseline and a canonical link, and shows a
\* page of an unsupported scheme by now: baselineTab is about to read its URL.
UnusableLiveUrlClearsStateWitness ==
  \E i \in 1..Len(tasks) :
    LET task == tasks[i]
        t == task.tab
    IN /\ task.kind = "manual-reset" /\ task.pc = "live"
       /\ tabState[t] = task.s
       /\ open[t] /\ ~isCoreProtocol(liveUrl[t])
       /\ StateOf(task).hasBaseline
       /\ StateOf(task).ids.canonical # ""

\* The one timer of tab t that the map of timers names, with the delay asked.
PendingProbe(t, delay) ==
  {x \in timers' : x.id = probeTimers'[t] /\ x.tab = t /\ x.delay = delay}

\* What C28 asks of one step (the claim is stated below).
OneProbeTimerPerTabStep ==
     /\ \A t \in Tabs : Cardinality(TimersOf(timers', t)) <= 1
     /\ \A e \in events :
          LoadComplete(e) =>
            /\ Cardinality(TimersOf(timers', e.tab)) = 1
            /\ TimersOf(timers', e.tab) = PendingProbe(e.tab, ProbeDelay)
     /\ \A i \in 1..Len(tasks) :
          (TailResumes(i) /\ tasks[i].deb >= 0)
            => /\ Cardinality(TimersOf(timers', tasks[i].tab)) = 1
               /\ TimersOf(timers', tasks[i].tab) =
                    PendingProbe(tasks[i].tab, tasks[i].deb)

\* C28: at most one probe timer is pending per tab in every reachable state;
\* a request to schedule a probe (on load complete, after a counted transition
\* or a baseline, on get-state) leaves exactly one, the one just asked for,
\* whether or not one was pending: requests with no timer firing in between
\* lead to one dispatch.
\* The step rule is OneProbeTimerPerTabStep; broken names the rules the last step broke.
OneProbeTimerPerTab ==
  "OneProbeTimerPerTab" \notin broken

\* A probe timer is pending for a tab, and a handler of the same tab is about
\* to schedule another.
OneProbeTimerPerTabWitness ==
  \E i \in 1..Len(tasks) :
    /\ tasks[i].pc = "tail" /\ tasks[i].deb >= 0
    /\ TimersOf(timers, tasks[i].tab) # {}

\* C29: an integration increments an identifier counter only if, when it
\* runs, tracking is enabled for the origin the tab's state holds, the state
\* has a baseline and the suppression flag is down.
IdCountedOnlyWhenTracked ==
  [][\A i \in 1..Len(tasks) :
       LET t == tasks[i].tab
           before == IF HasState(t) THEN TabStateOf(t) ELSE newState
       IN ( /\ PageIdsResumes(i)
            /\ tabState'[t] # NoObj
            /\ heap'[tabState'[t]].counts.ids # before.counts.ids )
            => /\ hasHostPerm(perms, before.origin)
               /\ before.hasBaseline
               /\ ~before.suppressNextIdIncrements
    ]_vars

\* The identifier counters after a result p: 1 more for each identifier that
\* differs from the stored one, where counting is on.
IdCountsAfter(st, p, on) ==
  [canonical |-> st.counts.ids.canonical + Plus(on /\ Differs(st.ids.canonical, p[1])),
   ogUrl |-> st.counts.ids.ogUrl + Plus(on /\ Differs(st.ids.ogUrl, p[2])),
   jsonLdId |-> st.counts.ids.jsonLdId + Plus(on /\ Differs(st.ids.jsonLdId, p[3]))]

\* The result of the probe that a counted transition scheduled is accepted
\* for a tab whose state still holds that transition's counts.
CountProbeResultAccepted(i) ==
  LET task == tasks[i]
      t == task.tab
  IN /\ PageIdsResumes(i)
     /\ task.by = "count"
     /\ LivePermitted(t)
     /\ tabNonce[t] # NoNonce /\ task.nonce = tabNonce[t]
     /\ HasState(t)
     /\ TabStateOf(t).hasBaseline
     /\ TabStateOf(t).counts.totals.all >= 1

\* C27 as stated: the result of the probe scheduled by a counted within-origin
\* transition adds 1 to the counter of each identifier that differs from the
\* stored value, whether or not a result has been integrated since the
\* preceding baseline.
CountProbeNeverSuppressed ==
  [][\A i \in 1..Len(tasks) :
       CountProbeResultAccepted(i) =>
         heap'[tabState'[tasks[i].tab]].counts.ids =
           IdCountsAfter(TabStateOf(tasks[i].tab), tasks[i].payload, TRUE)
    ]_vars

\* What C27 asks of one step (the claim is stated below).
CountProbeSuppressedOnlyByFlagStep ==
     \A i \in 1..Len(tasks) :
       CountProbeResultAccepted(i) =>
         LET st == TabStateOf(tasks[i].tab)
             now == heap'[tabState'[tasks[i].tab]]
         IN /\ now.counts.ids =
                 IdCountsAfter(st, tasks[i].payload, ~st.suppressNextIdIncrements)
            /\ ~now.suppressNextIdIncrements

\* C27: the result of the probe scheduled by a counted within-origin
\* transition adds 1 to the counter of each identifier that differs from the
\* stored value when the suppression flag is down. When no result has been
\* integrated since the preceding baseline the flag is still up, and this
\* result is the suppressed one: it increments nothing and takes the flag down.
\* The step rule is CountProbeSuppressedOnlyByFlagStep; broken names the rules the last step broke.
CountProbeSuppressedOnlyByFlag ==
  "CountProbeSuppressedOnlyByFlag" \notin broken

\* The result of a counted transition's probe is about to be integrated for a
\* tab whose flag is still up, and it carries a canonical link the state does
\* not hold.
CountProbeSuppressedOnlyByFlagWitness ==
  \E i \in 1..Len(tasks) :
    LET task == tasks[i]
        t == task.tab
    IN /\ task.kind = "page-ids" /\ task.pc = "sender" /\ task.by = "count"
       /\ LivePermitted(t) /\ t \in injectedTabs
       /\ tabNonce[t] # NoNonce /\ task.nonce = tabNonce[t]
       /\ HasState(t)
       /\ TabStateOf(t).hasBaseline
       /\ TabStateOf(t).counts.totals.all >= 1
       /\ TabStateOf(t).suppressNextIdIncrements
       /\ Differs(TabStateOf(t).ids.canonical, task.payload[1])

\* The add-on where the handlers of a navigation's URL events may be in flight
\* together, started with the permission of origin A granted.
NextOverlap ==
  \/ Next
  \/ \E e \in events : UrlEventOverlaps(e)

\* What C25 asks of one step (the claim is stated below).
BaselineRecordsLiveUrlStep ==
     \A i \in 1..Len(tasks) :
       LET task == tasks[i]
           t == task.tab
           liveU == LiveUrlOf(t)
       IN /\ ( /\ BaselineResumes(i) /\ task.kind = "huc"
               /\ liveU # NoUrl /\ isCoreProtocol(liveU) )
               => /\ tabState'[t] = task.s
                  /\ heap'[task.s].lastUrl = liveU
                  /\ heap'[task.s].origin = <<liveU[1], liveU[2]>>
                  /\ heap'[task.s].hasBaseline
                  /\ \A e \in events :
                       (e.tab = t /\ e.url = liveU)
                         => hucBranch(heap'[task.s], e.url, TRUE) = "duplicate"
          /\ ( /\ HandleUrlChangeResumes(i)
               /\ ObservedEnabled(task)
               /\ StateOf(task).hasBaseline
               /\ StateOf(task).lastUrl = task.url )
               => /\ tasks' = RemoveAt(tasks, i)
                  /\ heap'[task.s] = StateOf(task) \/ task.s \notin Reachable(tabState', tasks')
                  /\ TabStatesUnchanged
                  /\ timers' = timers /\ probeTimers' = probeTimers

TwinWaiting(i, j) ==
  /\ j # i
  /\ tasks[j].kind = "huc" /\ tasks[j].pc = "perm"
  /\ tasks[j].tab = tasks[i].tab /\ tasks[j].url = tasks[i].url
  /\ tasks[j].s = tasks[i].s

\* What C26 asks of one step (the claim is stated below).
TransitionCountedOnceStep ==
     \A i \in 1..Len(tasks) :
       HandleUrlChangeResumes(i) =>
         LET task == tasks[i]
             t == task.tab
             st == StateOf(task)
             branch == hucBranch(st, task.url, ObservedEnabled(task))
         IN /\ branch = "count" =>
                 /\ heap'[task.s].counts.totals.all = st.counts.totals.all + 1
                 /\ heap'[task.s].lastUrl = task.url
                 /\ \A e \in events :
                      (e.tab = t /\ e.url = task.url)
                        => hucBranch(heap'[task.s], e.url, TRUE) = "duplicate"
                 /\ \A j \in 1..Len(tasks) :
                      TwinWaiting(i, j)
                        => hucBranch(heap'[task.s], tasks[j].url, TRUE) = "duplicate"
            /\ branch = "duplicate" =>
                 /\ tasks' = RemoveAt(tasks, i)
                 /\ TabStatesUnchanged
                 /\ \A j \in 1..Len(tasks) :
                      TwinWaiting(i, j) => heap'[task.s] = st

\* C26: of the events that report one transition of a tab (the same new URL,
\* from tabs.onUpdated and from webNavigation), the handler that resumes first
\* counts it: totals.all goes up by 1 and lastUrl becomes the URL. From then
\* on the transition is a duplicate for the others, whether their event is
\* still to be delivered or their handler already waits for its permission
\* query, and a handler that finds a duplicate leaves every counter as it is.
\* The step rule is TransitionCountedOnceStep; broken names the rules the last step broke.
TransitionCountedOnce ==
  "TransitionCountedOnce" \notin broken

\* Both handlers of a within-origin transition wait for their permission
\* query; the tab has a baseline at another URL of the origin, and tracking
\* is enabled.
TransitionCountedOnceWitness ==
  /\ Len(tasks) = 2
  /\ TwinWaiting(1, 2)
  /\ tasks[1].kind = "huc" /\ tasks[1].pc = "perm"
  /\ tabState[tasks[1].tab] = tasks[1].s
  /\ hucBranch(StateOf(tasks[1]), tasks[1].url, ObservedEnabled(tasks[1])) = "count"

\* The add-on watching two tabs. Tab 2 has been used: focused on page A
\* (baseline, extractor injected, identifiers read), then loaded page B of an
\* origin without permission (location recorded, load-complete probe pending).
\* Tab 1 is new. Inputs are counted from here.
SecondTabState ==
  [lastUrl |-> UrlB, origin |-> OriginB, hasBaseline |-> TRUE,
   suppressNextIdIncrements |-> FALSE, counts |-> newCounts,
   ids |-> [canonical |-> "c1", ogUrl |-> "o1", jsonLdId |-> "j1"]]

InitTwoTabs ==
  /\ perms = {patternForOrigin(OriginA)}
  /\ open = [t \in TwoTabs |-> TRUE]
  /\ liveUrl = [t \in TwoTabs |-> IF t = 1 THEN UrlA ELSE UrlB]
  /\ script = [t \in TwoTabs |-> NoScript]
  /\ events = {}
  /\ inbox = {}
  /\ tabState = [t \in TwoTabs |-> IF t = 1 THEN NoObj ELSE 1]
  /\ heap = [o \in ObjIds |-> IF o = 1 THEN SecondTabState ELSE newState]
  /\ injectedTabs = {2}
  /\ tabNonce = [t \in TwoTabs |-> IF t = 1 THEN NoNonce ELSE makeNonce(0)]
  /\ nonceCtr = makeNonce(0)
  /\ probeTimers = [t \in TwoTabs |-> IF t = 1 THEN NoTimer ELSE 1]
  /\ timers = {[id |-> 1, tab |-> 2, delay |-> ProbeDelay, by |-> ""]}
  /\ tasks = <<>>
  /\ out = <<>>
  /\ inputs = [total |-> 0, racing |-> 0]
  /\ broken = {}

\* Events and messages for tab 1, and whatever is pending for either tab.
NextTwoTabs ==
  \/ \E url \in Urls, kind \in {"full", "spa"} : Navigate(1, url, kind)
  \/ TabRemoved(1)
  \/ TabActivated(1)
  \/ \E u \in SenderUrls : GetStateMsg(1, u)
  \/ \E u \in SenderUrls : ManualResetMsg(1, u)
  \/ \E o \in TrackOrigins, en \in BOOLEAN, u \in SenderUrls, t \in {1, NoTab} :
       SetTrackingMsg(o, en, u, t)
  \/ \E p \in Payloads : \E n \in {tabNonce[1], WrongNonce} : ForgedPageIdsMsg(1, p, n)
  \/ \E e \in events : UrlEvent(e)
  \/ \E e \in events : LoadComplete(e)
  \/ \E m \in inbox : PageIdsMsg(m)
  \/ \E x \in timers : TimerFires(x)
  \/ \E i \in 1..Len(tasks) : HandleUrlChangeResumes(i)
  \/ \E i \in 1..Len(tasks) : BaselineResumes(i)
  \/ \E i \in 1..Len(tasks) : TailResumes(i)
  \/ \E i \in 1..Len(tasks) : ActivatedResumes(i)
  \/ \E i \in 1..Len(tasks) : ActivatedPermResumes(i)
  \/ \E i \in 1..Len(tasks) : SetTrackingOffResumes(i)
  \/ \E i \in 1..Len(tasks) : PageIdsResumes(i)
  \/ \E i \in 1..Len(tasks) : RefreshResumes(i)
  \/ \E i \in 1..Len(tasks) : RefreshInitResumes(i)

\* The state entry, nonce, injection record and probe timer of tab b are as
\* they were.
EntriesUntouched(b) ==
  /\ tabState'[b] = tabState[b]
  /\ HasState(b) => heap'[tabState[b]] = heap[tabState[b]]
  /\ tabNonce'[b] = tabNonce[b]
  /\ (b \in injectedTabs') = (b \in injectedTabs)
  /\ probeTimers'[b] = probeTimers[b]
  /\ TimersOf(timers', b) = TimersOf(timers, b)

\* The step handles an event or a message of tab a, or resumes a handler
\* that runs for it.
HandledFor(a) ==
  \/ TabRemoved(a)
  \/ TabActivated(a)
  \/ \E u \in SenderUrls : GetStateMsg(a, u) \/ ManualResetMsg(a, u)
  \/ \E o \in TrackOrigins, en \in BOOLEAN, u \in SenderUrls :
       SetTrackingMsg(o, en, u, a)
  \/ \E p \in Payloads : \E n \in {tabNonce[a], WrongNonce} : ForgedPageIdsMsg(a, p, n)
  \/ \E e \in events : e.tab = a /\ (UrlEvent(e) \/ LoadComplete(e))
  \/ \E m \in inbox : m.tab = a /\ PageIdsMsg(m)
  \/ \E x \in timers : x.tab = a /\ TimerFires(x)
  \/ \E i \in 1..Len(tasks) :
       /\ tasks[i].tab = a
       /\ \/ HandleUrlChangeResumes(i) \/ BaselineResumes(i) \/ TailResumes(i)
          \/ ActivatedResumes(i) \/ ActivatedPermResumes(i)
          \/ SetTrackingOffResumes(i) \/ PageIdsResumes(i)
          \/ RefreshResumes(i) \/ RefreshInitResumes(i)

\* What C30 asks of one step (the claim is stated below).
OtherTabsUntouchedStep ==
     \A a \in DOMAIN open :
       HandledFor(a) => \A b \in DOMAIN open \ {a} : EntriesUntouched(b)

\* C30: handling an event or a message for one tab (URL observation, baseline,
\* activation, close, page-ids, get-state, manual-reset, set-tracking, a probe
\* timer) leaves the state entry, nonce, injection record and probe timer of
\* every other tab as they were.
\* The step rule is OtherTabsUntouchedStep; broken names the rules the last step broke.
OtherTabsUntouched ==
  "OtherTabsUntouched" \notin broken

\* Tab 2 has a state entry, a nonce, an injection record and a pending probe
\* timer, and a handler of tab 1 is about to write tab 1's state and schedule
\* tab 1's probe.
OtherTabsUntouchedWitness ==
  /\ DOMAIN open = TwoTabs
  /\ HasState(2) /\ tabNonce[2] # NoNonce /\ 2 \in injectedTabs
  /\ TimersOf(timers, 2) # {}
  /\ \E i \in 1..Len(tasks) :
       tasks[i].tab = 1 /\ tasks[i].pc = "live" /\ tasks[i].deb >= 0

\* C31: when a step changes the origin a tab's state holds from one origin to
\* another, the nine counters of the tab are zero after the step.
OriginChangeZeroesCounts ==
  [][\A t \in DOMAIN open :
       ( /\ HasState(t) /\ tabState'[t] # NoObj
         /\ TabStateOf(t).origin # NoOrigin
         /\ heap'[tabState'[t]].origin # NoOrigin
         /\ heap'[tabState'[t]].origin # TabStateOf(t).origin )
         => heap'[tabState'[t]].counts = newCounts
    ]_vars

\* The add-on started with no permission granted, where tabs only navigate and
\* the user grants permissions: until the first observation with tracking
\* enabled is handled, every tab has been observed passively at most.
NextOptIn ==
  \/ \E t \in DOMAIN open, url \in Urls, kind \in {"full", "spa"} : Navigate(t, url, kind)
  \/ \E o \in HttpOrigins : GrantPermission(o)
  \/ \E e \in events : UrlEvent(e)
  \/ \E e \in events : LoadComplete(e)
  \/ \E m \in inbox : PageIdsMsg(m)
  \/ \E x \in timers : TimerFires(x)
  \/ \E i \in 1..Len(tasks) : HandleUrlChangeResumes(i)
  \/ \E i \in 1..Len(tasks) : BaselineResumes(i)
  \/ \E i \in 1..Len(tasks) : TailResumes(i)
  \/ \E i \in 1..Len(tasks) : PageIdsResumes(i)
  \/ \E i \in 1..Len(tasks) : RefreshResumes(i)
  \/ \E i \in 1..Len(tasks) : RefreshInitResumes(i)

\* A URL observation with tracking enabled resumes for a tab on which no such
\* observation has left a trace: nothing counted, no baseline awaiting its
\* first probe result, no extractor ever injected.
FirstEnabledObservation(i) ==
  /\ HandleUrlChangeResumes(i)
  /\ ObservedEnabled(tasks[i])
  /\ StateOf(tasks[i]).counts = newCounts
  /\ ~StateOf(tasks[i]).suppressNextIdIncrements
  /\ tasks[i].tab \notin injectedTabs

\* C32 as stated: the first URL observation handled after tracking becomes
\* enabled for the tab's origin goes to baselineTab and increments no counter,
\* also for a tab that was observed passively before.
FirstEnabledObservationBaselines ==
  [][\A i \in 1..Len(tasks) :
       FirstEnabledObservation(i) =>
         /\ tasks'[i].pc = "live"
         /\ heap'[tasks[i].s].counts = StateOf(tasks[i]).counts
    ]_vars

\* What C32 asks of one step (the claim is stated below).
FirstEnabledObservationJudgedStep ==
     \A i \in 1..Len(tasks) :
       LET task == tasks[i]
           st == StateOf(task)
       IN /\ (HandleUrlChangeResumes(i) /\ ~ObservedEnabled(task))
               => /\ heap'[task.s].hasBaseline
                  /\ heap'[task.s].lastUrl = task.url
          /\ FirstEnabledObservation(i) =>
               IF ~st.hasBaseline \/ st.origin # originOf(toURL(task.url))
               THEN /\ tasks'[i].pc = "live"
                    /\ heap'[task.s].counts = st.counts
               ELSE IF st.lastUrl = task.url
               THEN /\ tasks' = RemoveAt(tasks, i)
                    /\ TabStatesUnchanged
               ELSE /\ tasks'[i].pc = "tail"
                    /\ heap'[task.s].counts.totals.all = 1
                    /\ heap'[task.s].lastUrl = task.url
                    /\ heap'[task.s].hasBaseline

\* C32: a passive observation leaves hasBaseline set and lastUrl at the URL it
\* saw. The first URL observation handled after tracking becomes enabled goes
\* to baselineTab, incrementing nothing, when the tab has no baseline or the
\* recorded origin is another one; for a tab observed passively on the same
\* origin it is judged against the recorded URL: dropped when it reports that
\* URL, counted as a transition (totals.all + 1) when it reports another.
\* The step rule is FirstEnabledObservationJudgedStep; broken names the rules the last step broke.
FirstEnabledObservationJudged ==
  "FirstEnabledObservationJudged" \notin broken

\* Tracking is enabled for the origin of a tab that was observed passively at
\* another URL of the origin, and the handler of the tab's next URL event is
\* about to resume.
FirstEnabledObservationJudgedWitness ==
  \E i \in 1..Len(tasks) :
    LET task == tasks[i]
        st == StateOf(task)
    IN /\ task.kind = "huc" /\ task.pc = "perm"
       /\ ObservedEnabled(task)
       /\ tabState[task.tab] = task.s
       /\ st.counts = newCounts /\ ~st.suppressNextIdIncrements
       /\ task.tab \notin injectedTabs
       /\ st.hasBaseline /\ st.origin = originOf(toURL(task.url))
       /\ st.lastUrl # task.url

\* C33: a counted transition of a same-document (History API) change is
\* recorded under totals.spa whichever of its two events is handled first: the
\* handler that counts it was started by onHistoryStateUpdated, or by
\* tabs.onUpdated while the onHistoryStateUpdated event of the same change is
\* still to be delivered.
HistoryChangeRecordedAsSpa ==
  [][\A i \in 1..Len(tasks) :
       LET task == tasks[i]
           st == StateOf(task)
       IN ( /\ HandleUrlChangeResumes(i)
            /\ heap'[task.s].counts.totals.all = st.counts.totals.all + 1
            /\ \/ task.source = "spa"
               \/ [type |-> "history", tab |-> task.tab, url |-> task.url] \in events )
          => /\ heap'[task.s].counts.totals.spa = st.counts.totals.spa + 1
             /\ heap'[task.s].counts.totals.full = st.counts.totals.full
    ]_vars

\* C34: in every reachable state, for every tab that has a state, hasBaseline
\* is true if and only if lastUrl is present.
BaselineIffLastUrl ==
  \A t \in DOMAIN open :
    HasState(t) => (TabStateOf(t).hasBaseline <=> TabStateOf(t).lastUrl # NoUrl)

\* A tab has a baseline at a recorded URL and has counted a transition since.
BaselineIffLastUrlWitness ==
  \E t \in DOMAIN open :
    /\ HasState(t)
    /\ TabStateOf(t).hasBaseline /\ TabStateOf(t).lastUrl # NoUrl
    /\ TabStateOf(t).counts.totals.all > 0
    /\ ~LivePermitted(t)

\* C35: in every reachable state, for every tab that has a state, while
\* suppressNextIdIncrements is true the three identifier counters are zero and
\* the three stored identifiers are empty.
SuppressedMeansNoIds ==
  \A t \in DOMAIN open :
    (HasState(t) /\ TabStateOf(t).suppressNextIdIncrements)
      => /\ TabStateOf(t).counts.ids = newCounts.ids
         /\ TabStateOf(t).ids = newIds

\* The flag is still up after a transition was counted on the baseline.
SuppressedMeansNoIdsWitness ==
  \E t \in DOMAIN open :
    /\ HasState(t)
    /\ TabStateOf(t).suppressNextIdIncrements
    /\ TabStateOf(t).counts.totals.all > 0

\* What C36 asks of one step (the claim is stated below).
CountersStepOrResetStep ==
     \A t \in DOMAIN open :
       (HasState(t) /\ tabState'[t] # NoObj) =>
         LET old == TabStateOf(t).counts
             new == heap'[tabState'[t]].counts
             Step(a, b) == b = a \/ b = a + 1
         IN \/ new = newCounts
            \/ /\ Step(old.totals.all, new.totals.all)
               /\ Step(old.totals.full, new.totals.full)
               /\ Step(old.totals.spa, new.totals.spa)
               /\ Step(old.dims.path, new.dims.path)
               /\ Step(old.dims.query, new.dims.query)
               /\ Step(old.dims.fragment, new.dims.fragment)
               /\ Step(old.ids.canonical, new.ids.canonical)
               /\ Step(old.ids.ogUrl, new.ids.ogUrl)
               /\ Step(old.ids.jsonLdId, new.ids.jsonLdId)

\* C36: every step changes the counters of a tab that has a state before and
\* after it in one of three ways: each counter is left as it was or increased
\* by exactly 1, or all nine counters are reset to zero.
\* The step rule is CountersStepOrResetStep; broken names the rules the last step broke.
CountersStepOrReset ==
  "CountersStepOrReset" \notin broken

\* A tab whose counters went up in two transitions, two components changing
\* in one of them, and in an identifier change.
CountersStepOrResetWitness ==
  \E t \in DOMAIN open :
    /\ HasState(t)
    /\ TabStateOf(t).counts.totals.all = 2
    /\ TabStateOf(t).counts.dims.path + TabStateOf(t).counts.dims.query
         + TabStateOf(t).counts.dims.fragment >= 3
    /\ TabStateOf(t).counts.ids.canonical > 0

\* C37: in every reachable state, for every tab that has a state, the path,
\* query and fragment counters are each at most totals.all.
DimensionsBoundedByAll ==
  \A t \in DOMAIN open :
    HasState(t) =>
      /\ TabStateOf(t).counts.dims.path <= TabStateOf(t).counts.totals.all
      /\ TabStateOf(t).counts.dims.query <= TabStateOf(t).counts.totals.all
      /\ TabStateOf(t).counts.dims.fragment <= TabStateOf(t).counts.totals.all

\* Two transitions were counted; the path changed in both, the query in one.
DimensionsBoundedByAllWitness ==
  \E t \in DOMAIN open :
    /\ HasState(t)
    /\ TabStateOf(t).counts.totals.all = 2
    /\ TabStateOf(t).counts.dims.path = 2
    /\ TabStateOf(t).counts.dims.query = 1

\* What C38 asks of one step (the claim is stated below).
IntegrationNeverBlanksStep ==
     /\ \A i \in 1..Len(tasks) :
          (PageIdsResumes(i) /\ tabState'[tasks[i].tab] # NoObj) =>
            LET old == IF HasState(tasks[i].tab)
                       THEN TabStateOf(tasks[i].tab) ELSE newState
                new == heap'[tabState'[tasks[i].tab]]
                p == tasks[i].payload
            IN /\ p[1] = "" => /\ new.ids.canonical = old.ids.canonical
                               /\ new.counts.ids.canonical = old.counts.ids.canonical
               /\ p[2] = "" => /\ new.ids.ogUrl = old.ids.ogUrl
                               /\ new.counts.ids.ogUrl = old.counts.ids.ogUrl
               /\ p[3] = "" => /\ new.ids.jsonLdId = old.ids.jsonLdId
                               /\ new.counts.ids.jsonLdId = old.counts.ids.jsonLdId
     /\ \A t \in DOMAIN open :
          ( /\ HasState(t) /\ tabState'[t] # NoObj
            /\ \/ TabStateOf(t).ids.canonical # "" /\ heap'[tabState'[t]].ids.canonical = ""
               \/ TabStateOf(t).ids.ogUrl # "" /\ heap'[tabState'[t]].ids.ogUrl = ""
               \/ TabStateOf(t).ids.jsonLdId # "" /\ heap'[tabState'[t]].ids.jsonLdId = "" )
          => \E i \in 1..Len(tasks) : BaselineResumes(i) \/ SetTrackingOffResumes(i)

\* C38: integrating a page-ids message leaves the stored value and the counter
\* of every identifier the message carries empty as they were, and a stored
\* identifier of a tab that keeps its state becomes empty only in a step of
\* baselineTab or of the set-tracking disable handler.
\* The step rule is IntegrationNeverBlanksStep; broken names the rules the last step broke.
IntegrationNeverBlanks ==
  "IntegrationNeverBlanks" \notin broken

\* An accepted page-ids message with an empty jsonLdId is about to be
\* integrated into a state that holds one.
IntegrationNeverBlanksWitness ==
  \E i \in 1..Len(tasks) :
    /\ tasks[i].kind = "page-ids" /\ tasks[i].pc = "sender"
    /\ isFromInjectedContent(LiveUrlOf(tasks[i].tab), perms)
    /\ nonceMatches(tabNonce[tasks[i].tab], tasks[i].nonce)
    /\ HasState(tasks[i].tab)
    /\ tasks[i].payload[3] = "" /\ tasks[i].payload[1] # ""
    /\ TabStateOf(tasks[i].tab).ids.jsonLdId # ""

\* The probe chain under the conditions of C39: origin A holds its permission
\* throughout, the tab stays open and stays on pages of that origin, and the
\* user focuses the tab, resets it from the sidebar and moves within the
\* origin. The event loop runs every queued event, timer and continuation,
\* and the extractor's answers arrive: each of these steps is weakly fair.
NextProbe ==
  \/ \E t \in DOMAIN open, url \in Urls, kind \in {"full", "spa"} :
       /\ isCoreProtocol(url)
       /\ hasHostPerm(perms, originOf(toURL(url)))
       /\ Navigate(t, url, kind)
  \/ \E t \in DOMAIN open : TabActivated(t)
  \/ \E t \in DOMAIN open, u \in SenderUrls : ManualResetMsg(t, u)
  \/ \E e \in events : UrlEvent(e)
  \/ \E e \in events : LoadComplete(e)
  \/ \E m \in inbox : PageIdsMsg(m)
  \/ \E x \in timers : TimerFires(x)
  \/ \E i \in 1..Len(tasks) : HandleUrlChangeResumes(i)
  \/ \E i \in 1..Len(tasks) : BaselineResumes(i)
  \/ \E i \in 1..Len(tasks) : TailResumes(i)
  \/ \E i \in 1..Len(tasks) : ActivatedResumes(i)
  \/ \E i \in 1..Len(tasks) : ActivatedPermResumes(i)
  \/ \E i \in 1..Len(tasks) : PageIdsResumes(i)
  \/ \E i \in 1..Len(tasks) : RefreshResumes(i)
  \/ \E i \in 1..Len(tasks) : RefreshInitResumes(i)

EventLoopRuns ==
  /\ WF_vars((\E e \in events : UrlEvent(e)) /\ broken' = {})
  /\ WF_vars((\E e \in events : LoadComplete(e)) /\ broken' = {})
  /\ WF_vars((\E m \in inbox : PageIdsMsg(m)) /\ broken' = {})
  /\ WF_vars((\E x \in timers : TimerFires(x)) /\ broken' = {})
  /\ WF_vars((\E i \in 1..Len(tasks) : HandleUrlChangeResumes(i)) /\ broken' = {})
  /\ WF_vars((\E i \in 1..Len(tasks) : BaselineResumes(i)) /\ broken' = {})
  /\ WF_vars((\E i \in 1..Len(tasks) : TailResumes(i)) /\ broken' = {})
  /\ WF_vars((\E i \in 1..Len(tasks) : ActivatedResumes(i)) /\ broken' = {})
  /\ WF_vars((\E i \in 1..Len(tasks) : ActivatedPermResumes(i)) /\ broken' = {})
  /\ WF_vars((\E i \in 1..Len(tasks) : PageIdsResumes(i)) /\ broken' = {})
  /\ WF_vars((\E i \in 1..Len(tasks) : RefreshResumes(i)) /\ broken' = {})
  /\ WF_vars((\E i \in 1..Len(tasks) : RefreshInitResumes(i)) /\ broken' = {})

\* C39: a tab whose baseline has put the suppression flag up gets its probe
\* dispatched and a result integrated: the flag eventually is down.
SuppressionEventuallyLifted ==
  \A t \in Tabs :
    (HasState(t) /\ TabStateOf(t).suppressNextIdIncrements)
      ~> (HasState(t) /\ ~TabStateOf(t).suppressNextIdIncrements)

\* The baseline has just put the flag up: its probe is not scheduled yet.
SuppressionEventuallyLiftedWitness ==
  \E t \in Tabs :
    /\ HasState(t) /\ TabStateOf(t).suppressNextIdIncrements
    /\ TimersOf(timers, t) = {}
    /\ inbox = {}
    /\ \E i \in 1..Len(tasks) : tasks[i].pc = "tail" /\ tasks[i].deb = ImmediateDelay

\* ---------------------------------------------------------- specifications

\* Every step of a specification is judged against the step rules of the
\* claims settled under it: broken names the rules the step broke, so a rule
\* holds of every step exactly when its name is never in broken.
Rule(name, kept) == IF kept THEN {} ELSE {name}

WatchSpec ==
  broken' = Rule("NoCountWithoutBaseline", NoCountWithoutBaselineStep)
            \cup Rule("OriginChangeRebaselines", OriginChangeRebaselinesStep)
            \cup Rule("DuplicateIsNoOp", DuplicateIsNoOpStep)
            \cup Rule("WithinOriginCounts", WithinOriginCountsStep)
            \cup Rule("SuppressionOneShot", SuppressionOneShotStep)
            \cup Rule("PassiveObservation", PassiveObservationStep)
            \cup Rule("WrongNonceDropped", WrongNonceDroppedStep)
            \cup Rule("NonceIssuedOncePerTab", NonceIssuedOncePerTabStep)
            \cup Rule("StaleResultIntegrated", StaleResultIntegratedStep)
            \cup Rule("OutsiderUiMessageDropped", OutsiderUiMessageDroppedStep)
            \cup Rule("PageIdsNeedInjectionAndPermission", PageIdsNeedInjectionAndPermissionStep)
            \cup Rule("UnsupportedSchemeIgnored", UnsupportedSchemeIgnoredStep)
            \cup Rule("ActivationBaselinesOrPasses", ActivationBaselinesOrPassesStep)
            \cup Rule("TrackingFlagFromPermissions", TrackingFlagFromPermissionsStep)
            \cup Rule("RefusalSurfacedAsResult", RefusalSurfacedAsResultStep)
            \cup Rule("ExtractorNeedsNonce", ExtractorNeedsNonceStep)
            \cup Rule("BaselineResult", BaselineResultStep)
            \cup Rule("UnusableLiveUrlClearsState", UnusableLiveUrlClearsStateStep)
            \cup Rule("OneProbeTimerPerTab", OneProbeTimerPerTabStep)
            \cup Rule("CountProbeSuppressedOnlyByFlag", CountProbeSuppressedOnlyByFlagStep)
            \cup Rule("CountersStepOrReset", CountersStepOrResetStep)
            \cup Rule("IntegrationNeverBlanks", IntegrationNeverBlanksStep)

Spec == Init /\ [][Next /\ WatchSpec]_vars

WatchOff ==
  broken' = Rule("TrackingOffInert", TrackingOffInertStep)

SpecOff == InitOff /\ [][NextOff /\ WatchOff]_vars

WatchQueryFails ==
  broken' = Rule("QueryFailureIsTrackingOff", QueryFailureIsTrackingOffStep)

SpecQueryFails == InitGranted /\ [][NextQueryFails /\ WatchQueryFails]_vars

WatchOverlap ==
  broken' = Rule("BaselineRecordsLiveUrl", BaselineRecordsLiveUrlStep)
            \cup Rule("TransitionCountedOnce", TransitionCountedOnceStep)

SpecOverlap == InitGranted /\ [][NextOverlap /\ WatchOverlap]_vars

WatchTwoTabs ==
  broken' = Rule("OtherTabsUntouched", OtherTabsUntouchedStep)

SpecTwoTabs == InitTwoTabs /\ [][NextTwoTabs /\ WatchTwoTabs]_vars

WatchOptIn ==
  broken' = Rule("FirstEnabledObservationJudged", FirstEnabledObservationJudgedStep)

SpecOptIn == InitOff /\ [][NextOptIn /\ WatchOptIn]_vars

WatchProbe ==
  broken' = {}

SpecProbe == InitGranted /\ [][NextProbe /\ WatchProbe]_vars /\ EventLoopRuns

====
